---------------------------- MODULE Spec2Model ----------------------------
(***************************************************************************)
(* A model of the spreadsheet-to-canvas renderer (excel-canvas.tsx): the   *)
(* layout of columns and rows, the merge resolver, the cell-rect resolver, *)
(* the draw order, the asynchronous image compositor and the ExcelCanvas   *)
(* effect that drives a draw onto one canvas element.                      *)
(*                                                                         *)
(* Lengths are integers: the worksheets and options the model draws give   *)
(* integral pixel values, so no rounding takes place anywhere.             *)
(* A JavaScript null / undefined is the empty sequence <<>> and a present  *)
(* value v is <<v>>.                                                       *)
(***************************************************************************)
EXTENDS Integers, Sequences, FiniteSets, TLC

VARIABLES
    canvas,     \* the canvas element: width, height, style.width, style.height
    events,     \* every operation performed on the canvas so far, in order
    draws,      \* one record per drawSheet call: its worksheet, promise, image tasks
    renders,    \* one record per run of the ExcelCanvas effect: its props
    probe,      \* the last lookup made through the sheet data provider
    lazyResult, \* the state of useLazyResult in useWorkbook: initial, data, error
    uploads     \* one record per call of setWorkbookFile: its file and its position

vars == <<canvas, events, draws, renders, probe, lazyResult, uploads>>

Null == <<>>
Some(v) == <<v>>
IsNull(o) == o = <<>>
Get(o) == o[1]
OrElse(o, d) == IF o = <<>> THEN d ELSE o[1]

Min(a, b) == IF a <= b THEN a ELSE b
Max(a, b) == IF a >= b THEN a ELSE b

RECURSIVE sum(_)
sum(s) == IF s = <<>> THEN 0 ELSE s[1] + sum(Tail(s))

Range(a, b) == a .. b

RECURSIVE Flatten(_)
Flatten(ss) == IF ss = <<>> THEN <<>> ELSE ss[1] \o Flatten(Tail(ss))

(***************************************************************************)
(* Constants of the renderer.                                              *)
(***************************************************************************)
EMU_PER_POINT == 12700
POINTS_PER_INCH == 72
IMAGE_RANGE_EXT_DPI == 96

UpperLetters ==
    <<"A", "B", "C", "D", "E", "F", "G", "H", "I", "J", "K", "L", "M",
      "N", "O", "P", "Q", "R", "S", "T", "U", "V", "W", "X", "Y", "Z">>
Digits == <<"0", "1", "2", "3", "4", "5", "6", "7", "8", "9">>

IsUpper(ch) == \E i \in 1 .. Len(UpperLetters) : UpperLetters[i] = ch
IsDigit(ch) == \E i \in 1 .. Len(Digits) : Digits[i] = ch

\* "X".charCodeAt(0) for the upper-case letters (ASCII 65..90)
charCodeAt(ch) == 64 + (CHOOSE i \in 1 .. Len(UpperLetters) : UpperLetters[i] = ch)
DigitValue(ch) == (CHOOSE i \in 1 .. Len(Digits) : Digits[i] = ch) - 1

COL_REF_NUM_BASE == charCodeAt("Z") - charCodeAt("A") + 1
COL_REF_NUM_OFFSET == charCodeAt("A") - 1

(***************************************************************************)
(* Reference parser.  A reference is a sequence of one-character strings.  *)
(* Where the code binds a value to a const and reads it several times, the *)
(* model hands the value to a second operator as a parameter.              *)
(***************************************************************************)
RECURSIVE LeadingUpper(_)
LeadingUpper(s) ==
    IF s = <<>> \/ ~IsUpper(s[1]) THEN 0 ELSE 1 + LeadingUpper(Tail(s))

MatchesCellRefAnyRow(s, n) ==
    /\ n >= 1
    /\ n <= 3
    /\ Len(s) > n
    /\ \A i \in (n + 1) .. Len(s) : IsDigit(s[i])

\* [A-Z]{1,3}[1-9][0-9]*, n being the number of leading upper-case letters of s
MatchesCellRef(s, n) ==
    /\ n >= 1
    /\ n <= 3
    /\ Len(s) > n
    /\ IsDigit(s[n + 1])
    /\ s[n + 1] # "0"
    /\ \A i \in (n + 2) .. Len(s) : IsDigit(s[i])

\* /^(?<col>[A-Z]{1,3})(?<row>[1-9][0-9]*)$/
CELL_REF_REGEX(s) == MatchesCellRef(s, LeadingUpper(s))

RECURSIVE ColNumberFromZero(_, _)
ColNumberFromZero(result, chars) ==
    IF chars = <<>> THEN result
    ELSE ColNumberFromZero(result * COL_REF_NUM_BASE + (charCodeAt(chars[1]) - charCodeAt("A")),
                           Tail(chars))

RECURSIVE ColNumberFrom(_, _)
ColNumberFrom(result, chars) ==
    IF chars = <<>> THEN result
    ELSE ColNumberFrom(result * COL_REF_NUM_BASE + (charCodeAt(chars[1]) - COL_REF_NUM_OFFSET),
                       Tail(chars))

RECURSIVE parseInt(_, _)
parseInt(result, chars) ==
    IF chars = <<>> THEN result
    ELSE parseInt(result * 10 + DigitValue(chars[1]), Tail(chars))

\* the groups col (the first n characters) and row (the rest) as numbers
CellNumbersOfGroups(cellRef, n) ==
    [col |-> ColNumberFrom(0, SubSeq(cellRef, 1, n)),
     row |-> parseInt(0, SubSeq(cellRef, n + 1, Len(cellRef)))]

getCellNumbersFromCellRef(cellRef) ==
    IF ~CELL_REF_REGEX(cellRef) THEN Null
    ELSE Some(CellNumbersOfGroups(cellRef, LeadingUpper(cellRef)))

ColonPositions(s) == {i \in 1 .. Len(s) : s[i] = ":"}

\* the groups start and end of a text with its one colon at p
RangeGroupsAt(s, p) ==
    IF CELL_REF_REGEX(SubSeq(s, 1, p - 1)) /\ CELL_REF_REGEX(SubSeq(s, p + 1, Len(s)))
    THEN Some(<<SubSeq(s, 1, p - 1), SubSeq(s, p + 1, Len(s))>>)
    ELSE Null

RangeGroups(s, colons) ==
    IF colons = {} THEN (IF CELL_REF_REGEX(s) THEN Some(<<s>>) ELSE Null)
    ELSE IF Cardinality(colons) > 1 THEN Null
    ELSE RangeGroupsAt(s, CHOOSE i \in colons : TRUE)

\* /^(?<start>[A-Z]{1,3}[1-9][0-9]*)(?::(?<end>[A-Z]{1,3}[1-9][0-9]*))?$/
\* gives <<start>> or <<start, end>>, or Null when the text does not match
CELL_RANGE_REF_REGEX(s) == RangeGroups(s, ColonPositions(s))

NormalisedRangeAsWritten(startNumbers, endNumbers) ==
    IF IsNull(endNumbers) THEN Null
    ELSE Some([start |-> Get(startNumbers), end |-> Get(endNumbers)])

\* the normalised range of the numbers of start and end
NormalisedRange(startNumbers, endNumbers) ==
    IF IsNull(endNumbers) THEN Null
    ELSE Some([start |-> [col |-> Min(Get(startNumbers).col, Get(endNumbers).col),
                          row |-> Min(Get(startNumbers).row, Get(endNumbers).row)],
               end |-> [col |-> Max(Get(startNumbers).col, Get(endNumbers).col),
                        row |-> Max(Get(startNumbers).row, Get(endNumbers).row)]])

RangeOfStart(groups, startNumbers) ==
    IF IsNull(startNumbers) THEN Null
    ELSE IF Len(groups) = 1
    THEN Some([start |-> Get(startNumbers), end |-> Get(startNumbers)])
    ELSE NormalisedRange(startNumbers, getCellNumbersFromCellRef(groups[2]))

RangeOfGroups(groups) == RangeOfStart(groups, getCellNumbersFromCellRef(groups[1]))

RangeOfMatch(match) == IF IsNull(match) THEN Null ELSE RangeOfGroups(Get(match))

getCellRangeNumbersFromCellRangeRef(cellRangeRef) ==
    RangeOfMatch(CELL_RANGE_REF_REGEX(cellRangeRef))

(***************************************************************************)
(* Unit model and column / row layout.                                     *)
(***************************************************************************)
getRectFromPosSize(pos, size) ==
    [x |-> pos.x, y |-> pos.y, width |-> size.width, height |-> size.height]

getRectFromEdges(left, top, right, bottom) ==
    [x |-> left, y |-> top, width |-> right - left, height |-> bottom - top]

getPixelWidth(charUnitWidth, scaleParams) ==
    charUnitWidth * scaleParams.characterUnit * scaleParams.pixelPerPoint

getPixelHeight(pointHeight, scaleParams) ==
    pointHeight * scaleParams.pixelPerPoint

isVisibleHiddenOnly(rowOrColumn) == ~rowOrColumn.hidden

isVisible(rowOrColumn) == ~(rowOrColumn.hidden \/ rowOrColumn.collapsed)

NextOffsetNoSize(result, offset, size) ==
    IF result = <<>> THEN 0 ELSE result[Len(result)][offset]

\* getNextX / getNextY: where the band after the last of result starts
NextOffset(result, offset, size) ==
    IF result = <<>> THEN 0 ELSE result[Len(result)][offset] + result[Len(result)][size]

RECURSIVE CanvasColumnsFrom(_, _, _, _)
CanvasColumnsFrom(result, columns, defaultColCharUnitWidth, params) ==
    IF columns = <<>> THEN result
    ELSE IF ~isVisible(columns[1])
    THEN CanvasColumnsFrom(result, Tail(columns), defaultColCharUnitWidth, params)
    ELSE CanvasColumnsFrom(
            Append(result,
                   [number |-> columns[1].number,
                    x |-> NextOffset(result, "x", "width"),
                    width |-> getPixelWidth(OrElse(columns[1].width, defaultColCharUnitWidth),
                                            params.scale)]),
            Tail(columns), defaultColCharUnitWidth, params)

getCanvasColumns(worksheet, params) ==
    CanvasColumnsFrom(<<>>, worksheet.columns,
                      OrElse(worksheet.properties.defaultColWidth, params.fallbackColCharUnitWidth),
                      params)

RECURSIVE CanvasRowsFrom(_, _, _, _)
CanvasRowsFrom(result, rows, defaultRowPointHeight, params) ==
    IF rows = <<>> THEN result
    ELSE IF ~isVisible(rows[1])
    THEN CanvasRowsFrom(result, Tail(rows), defaultRowPointHeight, params)
    ELSE CanvasRowsFrom(
            Append(result,
                   [number |-> rows[1].number,
                    y |-> NextOffset(result, "y", "height"),
                    height |-> getPixelHeight(OrElse(rows[1].height, defaultRowPointHeight),
                                              params.scale)]),
            Tail(rows), defaultRowPointHeight, params)

getCanvasRowsOrNone(worksheet, params) ==
    Some(CanvasRowsFrom(<<>>, OrElse(worksheet.rows, <<>>),
                        worksheet.properties.defaultRowHeight, params))

\* worksheet.rows is Null when worksheet.getRows(1, rowCount) yields undefined
getCanvasRows(worksheet, params) ==
    IF IsNull(worksheet.rows) THEN Null
    ELSE Some(CanvasRowsFrom(<<>>, Get(worksheet.rows),
                             worksheet.properties.defaultRowHeight, params))

getCanvasSize(columns, rows) ==
    [width |-> sum([i \in 1 .. Len(columns) |-> columns[i].width]),
     height |-> sum([i \in 1 .. Len(rows) |-> rows[i].height])]

(***************************************************************************)
(* Style lowering (the parts the draw order and the text placement read).  *)
(* A font is the record of the parts of the CSS font string.               *)
(***************************************************************************)
FALLBACK_FONT_FAMILY_MAP(family) ==
    CASE family = 1 -> "serif"
      [] family = 2 -> "sans-serif"
      [] family = 3 -> "monospace"
      [] OTHER -> ""

TEXT_ALIGN_SET == {"left", "right", "center", "start", "end"}
TEXT_BASELINE_SET == {"top", "hanging", "middle", "alphabetic", "ideographic", "bottom"}

Field(optRecord, name) == IF IsNull(optRecord) THEN Null ELSE Get(optRecord)[name]

getCanvasFont(font, params) ==
    LET italic == OrElse(Field(font, "italic"), FALSE)
        bold == OrElse(Field(font, "bold"), FALSE)
        size == OrElse(Field(font, "size"), params.text.fallbackFont.size)
        name == OrElse(Field(font, "name"), params.text.fallbackFont.familyName)
        family == OrElse(Field(font, "family"), -1)
    IN [italic |-> italic, bold |-> bold, px |-> size * params.scale.pixelPerPoint,
        name |-> name, generic |-> FALLBACK_FONT_FAMILY_MAP(family)]

getCanvasLineHeight(font, params) ==
    OrElse(Field(font, "size"), params.text.fallbackFont.size)
        * params.scale.pixelPerPoint * params.text.lineHeight

getCanvasTextAlign(value) ==
    IF IsNull(value) THEN Null
    ELSE IF Get(value) \in TEXT_ALIGN_SET THEN value ELSE Null

getCanvasTextBaseline(value) ==
    IF IsNull(value) THEN Null
    ELSE IF Get(value) \in TEXT_BASELINE_SET THEN value ELSE Null

getCanvasAlignment(alignment, fallbackAlignment) ==
    [horizontal |-> OrElse(getCanvasTextAlign(Field(alignment, "horizontal")),
                           fallbackAlignment.horizontal),
     vertical |-> OrElse(getCanvasTextBaseline(Field(alignment, "vertical")),
                         fallbackAlignment.vertical),
     wrapText |-> OrElse(Field(alignment, "wrapText"), fallbackAlignment.wrapText),
     shrinkToFit |-> OrElse(Field(alignment, "shrinkToFit"), fallbackAlignment.shrinkToFit)]

\* cell.text is Null when reading it throws
getCanvasTextValue(cell) == OrElse(cell.text, <<>>)

getCanvasText(cell, params) ==
    [font |-> getCanvasFont(cell.font, params),
     alignment |-> getCanvasAlignment(cell.alignment, params.text.fallbackAlignment),
     lineHeight |-> getCanvasLineHeight(cell.font, params),
     value |-> getCanvasTextValue(cell)]

\* argb is the pair of argb.substring(0, 2) and argb.substring(2); the colour is the
\* text "#" rgb a, a colour name the text of the name
getCanvasColor(color) ==
    IF IsNull(color) THEN Null
    ELSE IF IsNull(Get(color).argb) THEN Null
    ELSE Some(<<"#", Get(Get(color).argb).rgb, Get(Get(color).argb).a>>)

CanvasBorderOf(color, style, params) ==
    IF style = "none" THEN [color |-> color, style |-> style, width |-> 0, segments |-> <<>>]
    ELSE [color |-> color, style |-> style, width |-> params.pixelWidthMap[style],
          segments |-> params.pixelSegmentsMap[style]]

getCanvasBorder(border, params) ==
    CanvasBorderOf(OrElse(getCanvasColor(Field(border, "color")), params.fallbackColor),
                   OrElse(Field(border, "style"), params.fallbackStyle), params)

getCanvasBorders(borders, params) ==
    [left |-> getCanvasBorder(Field(borders, "left"), params),
     top |-> getCanvasBorder(Field(borders, "top"), params),
     right |-> getCanvasBorder(Field(borders, "right"), params),
     bottom |-> getCanvasBorder(Field(borders, "bottom"), params)]

\* source is a ghost field: the address and isMerged flag of the worksheet cell
getCanvasCell(cell, rect, params) ==
    [text |-> getCanvasText(cell, params),
     borders |-> getCanvasBorders(cell.border, params.border),
     x |-> rect.x, y |-> rect.y, width |-> rect.width, height |-> rect.height,
     source |-> [col |-> cell.col, row |-> cell.row, isMerged |-> cell.isMerged]]

(***************************************************************************)
(* Text measurement: the measuring canvas gives every character the        *)
(* advance of half the font's pixel size.                                  *)
(***************************************************************************)
measureTextWidth(font, text) == Len(text) * (font.px \div 2)

doesCellValueFitDrawArea(cell) ==
    IF cell.text.alignment.shrinkToFit THEN FALSE
    ELSE measureTextWidth(cell.text.font, cell.text.value) < cell.width

(***************************************************************************)
(* Soft lines of a cell value.  A text is a sequence of one-character      *)
(* strings; a result is Null when the call never returns (the recursion    *)
(* repeats its own arguments until the stack is exhausted: RangeError).    *)
(***************************************************************************)
NEWLINE == "\n"

\* \W: the characters other than letters, digits and the underscore
IsNonWord(ch) == ~(IsUpper(ch) \/ IsDigit(ch) \/ ch \in {"x", "y", "z", "_"})

\* value.split("\n")
RECURSIVE SplitAtNewlines(_, _)
SplitAtNewlines(current, rest) ==
    IF rest = <<>> THEN <<current>>
    ELSE IF rest[1] = NEWLINE THEN <<current>> \o SplitAtNewlines(<<>>, Tail(rest))
    ELSE SplitAtNewlines(Append(current, rest[1]), Tail(rest))

\* line.split(/\s+|\W/): the separators are not part of the tokens
RECURSIVE TokensWithoutSeparators(_, _)
TokensWithoutSeparators(current, rest) ==
    IF rest = <<>> THEN <<current>>
    ELSE IF IsNonWord(rest[1])
    THEN <<current>> \o TokensWithoutSeparators(<<>>, Tail(rest))
    ELSE TokensWithoutSeparators(Append(current, rest[1]), Tail(rest))

\* line.split(TOKEN_SPLITTER_REGEX): a token ends behind every \W character but the last
RECURSIVE TokensFrom(_, _)
TokensFrom(current, rest) ==
    IF rest = <<>> THEN <<current>>
    ELSE IF IsNonWord(rest[1]) /\ Len(rest) > 1
    THEN <<Append(current, rest[1])>> \o TokensFrom(<<>>, Tail(rest))
    ELSE TokensFrom(Append(current, rest[1]), Tail(rest))

TOKEN_SPLITTER_REGEX == "regex"

\* line.split(splitter), the splitter being TOKEN_SPLITTER_REGEX or ""
Split(line, splitter) ==
    IF splitter = TOKEN_SPLITTER_REGEX THEN TokensFrom(<<>>, line)
    ELSE [i \in 1 .. Len(line) |-> <<line[i]>>]

\* newLines[lastIndex] ?? ""
LastLine(newLines) == IF newLines = <<>> THEN <<>> ELSE newLines[Len(newLines)]

\* newLines.splice(lastIndex, 1, ...subLines)
Splice(newLines, subLines) == SubSeq(newLines, 1, Len(newLines) - 1) \o subLines

ConcatLines(a, b) == IF IsNull(a) \/ IsNull(b) THEN Null ELSE Some(Get(a) \o Get(b))

RECURSIVE getCanvasCellValueLines(_, _, _, _, _)
RECURSIVE WrapFrom(_, _, _, _, _, _)

\* the rest of the loop once the sub-lines of an over-wide first token are known
WrapSpliced(subLines, newLines, tokens, value, font, width, splitter) ==
    IF IsNull(subLines) THEN Null
    ELSE WrapFrom(Splice(newLines, Get(subLines)), tokens, value, font, width, splitter)

\* getCanvasCellValueLines(newLine, wrapText, font, width, "") called from the call
\* on value with splitter: a call with its caller's arguments never returns
BreakToken(newLine, value, font, width, splitter) ==
    IF splitter = "" /\ value = newLine THEN Null
    ELSE getCanvasCellValueLines(newLine, TRUE, font, width, "")

\* the body of the loop over the tokens, for the last line and the line with the token
WrapToken(newLines, line, newLine, tokens, value, font, width, splitter) ==
    IF measureTextWidth(font, newLine) < width
    THEN WrapFrom([newLines EXCEPT ![Len(newLines)] = newLine], Tail(tokens),
                  value, font, width, splitter)
    ELSE IF line = <<>>
    THEN WrapSpliced(BreakToken(newLine, value, font, width, splitter), newLines,
                     Tail(tokens), value, font, width, splitter)
    ELSE WrapFrom(Append(newLines, tokens[1]), Tail(tokens), value, font, width, splitter)

WrapFrom(newLines, tokens, value, font, width, splitter) ==
    IF tokens = <<>> THEN Some(newLines)
    ELSE WrapToken(newLines, LastLine(newLines), LastLine(newLines) \o tokens[1], tokens,
                   value, font, width, splitter)

\* lines.flatMap(...)
RECURSIVE WrapLines(_, _, _, _, _)
WrapLines(lines, value, font, width, splitter) ==
    IF lines = <<>> THEN Some(<<>>)
    ELSE ConcatLines(WrapFrom(<<<<>>>>, Split(lines[1], splitter), value, font, width, splitter),
                     WrapLines(Tail(lines), value, font, width, splitter))

getCanvasCellValueLines(value, wrapText, font, width, splitter) ==
    IF ~wrapText THEN Some(SplitAtNewlines(<<>>, value))
    ELSE WrapLines(SplitAtNewlines(<<>>, value), value, font, width, splitter)

(***************************************************************************)
(* Merge resolver.  A Map is a function on its keys; rangeNumbersMap keeps *)
(* its entries in insertion order.                                         *)
(***************************************************************************)
MapSet(map, key, value) ==
    [k \in (DOMAIN map) \cup {key} |-> IF k = key THEN value ELSE map[k]]

EmptyMap == [k \in {} |-> 0]

\* for (const col of range(start.col, end.col)) mergeIdMap.set(col, colMap)
RECURSIVE SetColumns(_, _, _, _)
SetColumns(mergeIdMap, col, lastCol, colMap) ==
    IF col > lastCol THEN mergeIdMap
    ELSE SetColumns(MapSet(mergeIdMap, col, colMap), col + 1, lastCol, colMap)

\* the body of the loop for a reference that parsed
AddMerge(maps, mergeId, numbers) ==
    [mergeIdMap |-> SetColumns(maps.mergeIdMap, numbers.start.col, numbers.end.col,
                               [row \in Range(numbers.start.row, numbers.end.row) |-> mergeId]),
     rangeNumbersMap |-> Append(maps.rangeNumbersMap,
                                [mergeId |-> mergeId, numbers |-> numbers])]

MergeStep(maps, mergeId, cellRangeNumbers) ==
    IF IsNull(cellRangeNumbers) THEN maps ELSE AddMerge(maps, mergeId, Get(cellRangeNumbers))

\* the loop of createMergedCellResolver over worksheet.model.merges.entries()
RECURSIVE MergeMapsFrom(_, _, _)
MergeMapsFrom(maps, merges, mergeId) ==
    IF mergeId >= Len(merges) THEN maps
    ELSE MergeMapsFrom(
            MergeStep(maps, mergeId, getCellRangeNumbersFromCellRangeRef(merges[mergeId + 1])),
            merges, mergeId + 1)

createMergedCellResolver(worksheet) ==
    MergeMapsFrom([mergeIdMap |-> EmptyMap, rangeNumbersMap |-> <<>>],
                  worksheet.model.merges, 0)

\* rangeNumbersMap.get(mergeId) ?? null
RangeNumbersGet(rangeNumbersMap, mergeId) ==
    IF \E i \in 1 .. Len(rangeNumbersMap) : rangeNumbersMap[i].mergeId = mergeId
    THEN Some(rangeNumbersMap[CHOOSE i \in 1 .. Len(rangeNumbersMap) :
                                  rangeNumbersMap[i].mergeId = mergeId].numbers)
    ELSE Null

getCellRangeNumbers(resolver, cellNumbers) ==
    IF cellNumbers.col \notin DOMAIN resolver.mergeIdMap THEN Null
    ELSE IF cellNumbers.row \notin DOMAIN resolver.mergeIdMap[cellNumbers.col] THEN Null
    ELSE RangeNumbersGet(resolver.rangeNumbersMap,
                         resolver.mergeIdMap[cellNumbers.col][cellNumbers.row])

cellRangeNumbersList(resolver) ==
    [i \in 1 .. Len(resolver.rangeNumbersMap) |-> resolver.rangeNumbersMap[i].numbers]

(***************************************************************************)
(* Column / row resolver and cell-rect resolver.                           *)
(***************************************************************************)
MapGetByIndex(bands, number) ==
    IF number \in 1 .. Len(bands) THEN Some(bands[number]) ELSE Null

\* Map.get of a Map built from [number, band] entries: the last entry of a number wins
MapGetByNumber(bands, number) ==
    IF \E i \in 1 .. Len(bands) : bands[i].number = number
    THEN Some(bands[CHOOSE i \in 1 .. Len(bands) :
                        /\ bands[i].number = number
                        /\ \A j \in (i + 1) .. Len(bands) : bands[j].number # number])
    ELSE Null

ColRowOf(column, row) ==
    IF IsNull(column) \/ IsNull(row) THEN Null
    ELSE Some([column |-> Get(column), row |-> Get(row)])

getColRow(columns, rows, cellNumbers) ==
    ColRowOf(MapGetByNumber(columns, cellNumbers.col), MapGetByNumber(rows, cellNumbers.row))

RectOfColRow(colRow) ==
    IF IsNull(colRow) THEN Null
    ELSE Some([x |-> Get(colRow).column.x, y |-> Get(colRow).row.y,
               width |-> Get(colRow).column.width, height |-> Get(colRow).row.height])

getCellRectOfSingleCell(columns, rows, cellNumbers) ==
    RectOfColRow(getColRow(columns, rows, cellNumbers))

\* the rect from the left / top of startRect to the right / bottom of endRect
RectOfEnds(startRect, endRect) ==
    IF IsNull(startRect) \/ IsNull(endRect) THEN Null
    ELSE Some(getRectFromEdges(Get(startRect).x, Get(startRect).y,
                               Get(endRect).x + Get(endRect).width,
                               Get(endRect).y + Get(endRect).height))

getCellRectOfMergedCell(columns, rows, cellRangeNumbers) ==
    RectOfEnds(getCellRectOfSingleCell(columns, rows, cellRangeNumbers.start),
               getCellRectOfSingleCell(columns, rows, cellRangeNumbers.end))

(***************************************************************************)
(* Iteration of the cells in draw order.                                   *)
(***************************************************************************)
\* row.getCell(column)
getCell(worksheet, column, row) == worksheet.cells[<<column.number, row.number>>]

\* the cell of one merged range, if its start cell and its rect resolve
MergedCellOf(colRow, rect, worksheet, params) ==
    IF IsNull(colRow) THEN <<>>
    ELSE IF IsNull(rect) THEN <<>>
    ELSE <<getCanvasCell(getCell(worksheet, Get(colRow).column, Get(colRow).row),
                         Get(rect), params)>>

RECURSIVE iterMergedCells(_, _, _, _, _)
iterMergedCells(mergedCellRangeNumbersList, columns, rows, worksheet, params) ==
    IF mergedCellRangeNumbersList = <<>> THEN <<>>
    ELSE MergedCellOf(getColRow(columns, rows, mergedCellRangeNumbersList[1].start),
                      getCellRectOfMergedCell(columns, rows, mergedCellRangeNumbersList[1]),
                      worksheet, params)
         \o iterMergedCells(Tail(mergedCellRangeNumbersList), columns, rows, worksheet, params)

RowCellOfAny(cell, row, column, params) ==
    <<getCanvasCell(cell,
                    [x |-> column.x, y |-> row.y,
                     width |-> column.width, height |-> row.height],
                    params)>>

RowCellOf(cell, row, column, params) ==
    IF cell.isMerged THEN <<>>
    ELSE <<getCanvasCell(cell,
                         [x |-> column.x, y |-> row.y,
                          width |-> column.width, height |-> row.height],
                         params)>>

RECURSIVE iterCellsInRowExcludeMerged(_, _, _, _)
iterCellsInRowExcludeMerged(row, columns, worksheet, params) ==
    IF columns = <<>> THEN <<>>
    ELSE RowCellOf(getCell(worksheet, columns[1], row), row, columns[1], params)
         \o iterCellsInRowExcludeMerged(row, Tail(columns), worksheet, params)

IsEmptyValue(cell) == Len(cell.text.value) = 0
IsNonEmptyValue(cell) == Len(cell.text.value) > 0
DoesNotFit(cell) == ~doesCellValueFitDrawArea(cell)

DrawOrderFitFirst(cells, nonEmptyCells) ==
    SelectSeq(cells, IsEmptyValue)
        \o SelectSeq(nonEmptyCells, doesCellValueFitDrawArea)
        \o SelectSeq(nonEmptyCells, DoesNotFit)

\* the empty cells as they come, then the non-empty ones that do not fit, then fitCells
DrawOrder(cells, nonEmptyCells) ==
    SelectSeq(cells, IsEmptyValue)
        \o SelectSeq(nonEmptyCells, DoesNotFit)
        \o SelectSeq(nonEmptyCells, doesCellValueFitDrawArea)

iterCellsInDrawOrder(cells) == DrawOrder(cells, SelectSeq(cells, IsNonEmptyValue))

(***************************************************************************)
(* Sheet data provider.                                                    *)
(***************************************************************************)
ProviderOf(worksheet, canvasColumns, canvasRows) ==
    IF IsNull(canvasRows) THEN Null
    ELSE Some([canvasColumns |-> canvasColumns,
               canvasRows |-> Get(canvasRows),
               canvasSize |-> getCanvasSize(canvasColumns, Get(canvasRows)),
               resolver |-> createMergedCellResolver(worksheet)])

createSheetDataProvider(worksheet, params) ==
    ProviderOf(worksheet, getCanvasColumns(worksheet, params), getCanvasRows(worksheet, params))

CellRectOf(provider, cellNumbers, cellRangeNumbers) ==
    IF IsNull(cellRangeNumbers)
    THEN getCellRectOfSingleCell(provider.canvasColumns, provider.canvasRows, cellNumbers)
    ELSE getCellRectOfMergedCell(provider.canvasColumns, provider.canvasRows,
                                 Get(cellRangeNumbers))

getCellRect(provider, cellNumbers) ==
    CellRectOf(provider, cellNumbers, getCellRangeNumbers(provider.resolver, cellNumbers))

\* for (const row of canvasRows) yield* iterCellsInDrawOrder(cellsInRow)
RowCellsInDrawOrder(provider, worksheet, params) ==
    [i \in 1 .. Len(provider.canvasRows) |->
        iterCellsInDrawOrder(
            iterCellsInRowExcludeMerged(provider.canvasRows[i], provider.canvasColumns,
                                        worksheet, params))]

\* yield* iterCellsInDrawOrder(mergedCells)
MergedCellsInDrawOrder(provider, worksheet, params) ==
    iterCellsInDrawOrder(
        iterMergedCells(cellRangeNumbersList(provider.resolver), provider.canvasColumns,
                        provider.canvasRows, worksheet, params))

iterCellsRowsFirst(provider, worksheet, params) ==
    Flatten(RowCellsInDrawOrder(provider, worksheet, params))
        \o MergedCellsInDrawOrder(provider, worksheet, params)

iterCells(provider, worksheet, params) ==
    MergedCellsInDrawOrder(provider, worksheet, params)
        \o Flatten(RowCellsInDrawOrder(provider, worksheet, params))

(***************************************************************************)
(* Anchor and image-rect resolver.  An image range is                      *)
(* [string |-> <<ref>>] for a textual range, or                            *)
(* [string |-> Null, tl |-> anchor?, br |-> anchor?, ext |-> size?].       *)
(***************************************************************************)
AnchorOf(anchor, colIndex, rowIndex, scaleParams) ==
    IF IsNull(colIndex) \/ IsNull(rowIndex) THEN Null
    ELSE Some([col |-> Get(colIndex), row |-> Get(rowIndex),
               pixelOffsetX |-> (OrElse(anchor.nativeColOff, 0) \div EMU_PER_POINT)
                                    * scaleParams.pixelPerPoint,
               pixelOffsetY |-> (OrElse(anchor.nativeRowOff, 0) \div EMU_PER_POINT)
                                    * scaleParams.pixelPerPoint])

\* a ?? b
Coalesce(a, b) == IF IsNull(a) THEN b ELSE a

getCanvasBottomRightAnchor(anchor, scaleParams) ==
    IF IsNull(anchor) THEN Null
    ELSE AnchorOf(Get(anchor), Coalesce(Get(anchor).nativeCol, Get(anchor).col),
                  Coalesce(Get(anchor).nativeRow, Get(anchor).row), scaleParams)

UnshiftedAnchor(canvasAnchor) == canvasAnchor

\* canvasAnchor.col += 1; canvasAnchor.row += 1
ShiftedAnchor(canvasAnchor) ==
    IF IsNull(canvasAnchor) THEN Null
    ELSE Some([Get(canvasAnchor) EXCEPT !.col = @ + 1, !.row = @ + 1])

getCanvasTopLeftAnchor(anchor, scaleParams) ==
    ShiftedAnchor(getCanvasBottomRightAnchor(anchor, scaleParams))

getImagePixelSize(imageRange, scaleParams) ==
    IF IsNull(imageRange.ext) THEN Null
    ELSE IF IsNull(Get(imageRange.ext).width) \/ IsNull(Get(imageRange.ext).height) THEN Null
    ELSE Some([width |-> ((Get(Get(imageRange.ext).width) * POINTS_PER_INCH)
                              \div IMAGE_RANGE_EXT_DPI) * scaleParams.pixelPerPoint,
               height |-> ((Get(Get(imageRange.ext).height) * POINTS_PER_INCH)
                               \div IMAGE_RANGE_EXT_DPI) * scaleParams.pixelPerPoint])

\* rect.x += anchor.pixelOffsetX; rect.y += anchor.pixelOffsetY
OffsetRect(rect, anchor) ==
    IF IsNull(rect) THEN Null
    ELSE Some([Get(rect) EXCEPT !.x = @ + anchor.pixelOffsetX, !.y = @ + anchor.pixelOffsetY])

getRectFromAnchorNoOffset(provider, anchor) ==
    getCellRect(provider, [col |-> anchor.col, row |-> anchor.row])

\* getRectFromAnchor of createCanvasRangeRectResolver
getRectFromAnchor(provider, anchor) ==
    OffsetRect(getCellRect(provider, [col |-> anchor.col, row |-> anchor.row]), anchor)

RectOfRangeNumbers(rangeNumbers, provider) ==
    IF IsNull(rangeNumbers) THEN Null
    ELSE RectOfEnds(getCellRect(provider, Get(rangeNumbers).start),
                    getCellRect(provider, Get(rangeNumbers).end))

getRectFromCellRangeRef(cellRangeRef, provider) ==
    RectOfRangeNumbers(getCellRangeNumbersFromCellRangeRef(cellRangeRef), provider)

getRectFromTopLeftBottomRight(topLeftAnchor, bottomRightAnchor, provider) ==
    RectOfEnds(getRectFromAnchor(provider, topLeftAnchor),
               getRectFromAnchor(provider, bottomRightAnchor))

RectAtStart(startRect, size) ==
    IF IsNull(startRect) THEN Null
    ELSE IF IsNull(size) THEN startRect
    ELSE Some(getRectFromPosSize(Get(startRect), Get(size)))

getRectFromTopLeft(topLeftAnchor, provider, size) ==
    RectAtStart(getRectFromAnchor(provider, topLeftAnchor), size)

RectAtEnd(endRect, size) ==
    IF IsNull(endRect) THEN Null
    ELSE IF IsNull(size) THEN endRect
    ELSE Some([x |-> Get(endRect).x + Get(endRect).width - Get(size).width,
               y |-> Get(endRect).y + Get(endRect).height - Get(size).height,
               width |-> Get(size).width, height |-> Get(size).height])

getRectFromBottomRight(bottomRightAnchor, provider, size) ==
    RectAtEnd(getRectFromAnchor(provider, bottomRightAnchor), size)

RectOfAnchors(topLeftAnchor, bottomRightAnchor, imageRange, provider, scaleParams) ==
    IF ~IsNull(topLeftAnchor) /\ ~IsNull(bottomRightAnchor)
    THEN getRectFromTopLeftBottomRight(Get(topLeftAnchor), Get(bottomRightAnchor), provider)
    ELSE IF ~IsNull(topLeftAnchor)
    THEN getRectFromTopLeft(Get(topLeftAnchor), provider,
                            getImagePixelSize(imageRange, scaleParams))
    ELSE IF ~IsNull(bottomRightAnchor)
    THEN getRectFromBottomRight(Get(bottomRightAnchor), provider,
                                getImagePixelSize(imageRange, scaleParams))
    ELSE Null

getRectFromImageRange(imageRange, provider, scaleParams) ==
    RectOfAnchors(getCanvasTopLeftAnchor(imageRange.tl, scaleParams),
                  getCanvasBottomRightAnchor(imageRange.br, scaleParams),
                  imageRange, provider, scaleParams)

getRectFromRange(range, provider, scaleParams) ==
    IF ~IsNull(range.string) THEN getRectFromCellRangeRef(Get(range.string), provider)
    ELSE getRectFromImageRange(range, provider, scaleParams)

(***************************************************************************)
(* Images of the worksheet.  workbook.media[n + 1] is the image of id n;   *)
(* an image is [base64 |-> text?, buffer |-> arrayBuffer?].  An            *)
(* ArrayBuffer is [bytes |-> its leading bytes, decodes |-> whether the    *)
(* platform can decode the whole of it]; a base64 text is                  *)
(* [buffer |-> the ArrayBuffer it encodes, Null if it is not base64].      *)
(***************************************************************************)
ImageOfId(workbook, normalizedId) ==
    IF normalizedId + 1 \in 1 .. Len(workbook.media)
    THEN Some(workbook.media[normalizedId + 1])
    ELSE Null

safeGetImage(workbook, imageId) ==
    ImageOfId(workbook,
              IF imageId.isString THEN parseInt(0, imageId.value) ELSE imageId.value)

getCanvasImage(rect, image) ==
    IF ~IsNull(image.base64)
    THEN Some([type |-> "base64", data |-> Get(image.base64),
               x |-> rect.x, y |-> rect.y, width |-> rect.width, height |-> rect.height])
    ELSE IF ~IsNull(image.buffer)
    THEN Some([type |-> "buffer", data |-> Get(image.buffer),
               x |-> rect.x, y |-> rect.y, width |-> rect.width, height |-> rect.height])
    ELSE Null

\* the body of the loop of getCanvasImages: the canvas image pushed, if any
CanvasImageOf(rect, data) ==
    IF IsNull(rect) THEN <<>>
    ELSE IF IsNull(data) THEN <<>>
    ELSE getCanvasImage(Get(rect), Get(data))

RECURSIVE CanvasImagesFrom(_, _, _, _)
CanvasImagesFrom(images, worksheet, provider, scaleParams) ==
    IF images = <<>> THEN <<>>
    ELSE CanvasImageOf(getRectFromRange(images[1].range, provider, scaleParams),
                       safeGetImage(worksheet.workbook, images[1].imageId))
         \o CanvasImagesFrom(Tail(images), worksheet, provider, scaleParams)

getCanvasImages(worksheet, provider, scaleParams) ==
    CanvasImagesFrom(worksheet.images, worksheet, provider, scaleParams)

(***************************************************************************)
(* Magic-byte detector.  A pattern part is the sequence of the values it   *)
(* lists: one value, several ([0x37, 0x39]) or none (null).                *)
(***************************************************************************)
IMAGE_TYPES == <<"png", "jpeg", "gif", "bmp", "webp">>

MAGIC_NUM_PATTERNS(type) ==
    CASE type = "png" -> <<<<137>>, <<80>>, <<78>>, <<71>>, <<13>>, <<10>>, <<26>>, <<10>>>>
      [] type = "jpeg" -> <<<<255>>, <<216>>, <<255>>>>
      [] type = "gif" -> <<<<71>>, <<73>>, <<70>>, <<56>>, <<55, 57>>, <<97>>>>
      [] type = "bmp" -> <<<<66>>, <<77>>>>
      [] type = "webp" -> <<<<82>>, <<73>>, <<70>>, <<70>>, <<>>, <<>>, <<>>, <<>>,
                            <<87>>, <<69>>, <<66>>, <<80>>>>

\* bytes[index] of a Uint8Array is undefined past its end and then differs from any value
bytesStartWith(bytes, pattern) ==
    \A index \in 1 .. Len(pattern) :
        ~ \E k \in 1 .. Len(pattern[index]) :
            \/ index > Len(bytes)
            \/ bytes[index] # pattern[index][k]

TypeMatches(arrayBuffer, i) ==
    bytesStartWith(arrayBuffer.bytes, MAGIC_NUM_PATTERNS(IMAGE_TYPES[i]))

determineImageType(arrayBuffer) ==
    IF \E i \in 1 .. Len(IMAGE_TYPES) : TypeMatches(arrayBuffer, i)
    THEN IMAGE_TYPES[CHOOSE i \in 1 .. Len(IMAGE_TYPES) :
                         /\ TypeMatches(arrayBuffer, i)
                         /\ \A j \in 1 .. (i - 1) : ~TypeMatches(arrayBuffer, j)]
    ELSE "unknown"

(***************************************************************************)
(* Options and drawing parameters.  defaultOptions lists the defaults the  *)
(* model reads that are integral; every render of the model passes         *)
(* options that override characterUnit, dpi and textLineHeight (whose      *)
(* defaults 5.85, 192 / 72 and 1.2 are not), so all lengths are integers.  *)
(***************************************************************************)
\* Border widths are in tenths of a point (0.2, 0.8, 0.5, ... in the source).
BORDER_STYLES ==
    {"hair", "thin", "double", "dotted", "dashed", "dashDot", "dashDotDot", "medium",
     "mediumDashDot", "mediumDashDotDot", "mediumDashed", "slantDashDot", "thick"}

defaultOptions ==
    [borderFallbackColor |-> <<"lightgray">>,
     borderFallbackStyle |-> "none",
     borderPointWidthMap |->
         [hair |-> 2, thin |-> 8, double |-> 5, dotted |-> 8, dashed |-> 8, dashDot |-> 8,
          dashDotDot |-> 8, medium |-> 15, mediumDashDot |-> 15, mediumDashDotDot |-> 15,
          mediumDashed |-> 15, slantDashDot |-> 15, thick |-> 20],
     borderPointSegmentsMap |->
         [dashDot |-> <<4, 2, 2, 2>>, dashDotDot |-> <<4, 2, 2, 2, 2, 2>>, dashed |-> <<4>>,
          dotted |-> <<2>>, mediumDashDot |-> <<4, 2, 2, 2>>,
          mediumDashDotDot |-> <<4, 2, 2, 2, 2, 2>>, mediumDashed |-> <<4>>,
          slantDashDot |-> <<4, 2, 2, 2>>],
     textFallbackFontFamilyName |-> "Arial",
     textFallbackFontSize |-> 10,
     textFallbackAlignmentHorizontal |-> "left",
     textFallbackAlignmentVertical |-> "bottom",
     textFallbackAlignmentWrapText |-> FALSE,
     textFallbackAlignmentShrinkToFit |-> FALSE,
     fallbackColCharUnitWidth |-> 13,
     cellPointPadding |-> 2]

\* { ...defaultOptions, ...parse(optionsString) }
MergeOptions(defaults, given) ==
    [f \in (DOMAIN defaults) \cup (DOMAIN given) |->
        IF f \in DOMAIN given THEN given[f] ELSE defaults[f]]

\* mapBorderStyleRecord(record, mapper) for the mappers of getDrawingParams
PixelWidthMap(record, pixelPerPoint) ==
    [style \in BORDER_STYLES |->
        (IF style \in DOMAIN record THEN record[style] ELSE 0) * pixelPerPoint]

PixelSegmentsMap(record, pixelPerPoint) ==
    [style \in BORDER_STYLES |->
        IF style \in DOMAIN record
        THEN [i \in 1 .. Len(record[style]) |-> record[style][i] * pixelPerPoint]
        ELSE <<>>]

getDrawingParams(options) ==
    LET pixelPerPoint == options.dpi \div POINTS_PER_INCH IN
    [scale |-> [characterUnit |-> options.characterUnit, pixelPerPoint |-> pixelPerPoint],
     border |-> [fallbackColor |-> options.borderFallbackColor,
                 fallbackStyle |-> options.borderFallbackStyle,
                 pixelWidthMap |-> PixelWidthMap(options.borderPointWidthMap, pixelPerPoint),
                 pixelSegmentsMap |->
                     PixelSegmentsMap(options.borderPointSegmentsMap, pixelPerPoint)],
     text |-> [fallbackFont |-> [familyName |-> options.textFallbackFontFamilyName,
                                 size |-> options.textFallbackFontSize],
               fallbackAlignment |->
                   [horizontal |-> options.textFallbackAlignmentHorizontal,
                    vertical |-> options.textFallbackAlignmentVertical,
                    wrapText |-> options.textFallbackAlignmentWrapText,
                    shrinkToFit |-> options.textFallbackAlignmentShrinkToFit],
               lineHeight |-> options.textLineHeight],
     fallbackColCharUnitWidth |-> options.fallbackColCharUnitWidth,
     cellPixelPadding |-> options.cellPointPadding * pixelPerPoint]

(***************************************************************************)
(* drawSheet.  An event is one operation on the canvas; draw is the number *)
(* of the drawSheet call that performed it.                                *)
(***************************************************************************)
Event(op, draw, rect, cell) ==
    [op |-> op, draw |-> draw, x |-> rect.x, y |-> rect.y,
     width |-> rect.width, height |-> rect.height, cell |-> cell]

getTextX(textAlign, rect) ==
    CASE textAlign = "right" -> rect.x + rect.width
      [] textAlign = "center" -> rect.x + rect.width \div 2
      [] OTHER -> rect.x

getStartTextYOfOneLine(textBaseline, rect, lineHeight, linesCount) ==
    CASE textBaseline = "middle" -> rect.y + rect.height \div 2
      [] textBaseline = "bottom" -> rect.y + rect.height
      [] OTHER -> rect.y

getStartTextY(textBaseline, rect, lineHeight, linesCount) ==
    CASE textBaseline = "middle" -> rect.y + (rect.height - lineHeight * (linesCount - 1)) \div 2
      [] textBaseline = "bottom" -> rect.y + rect.height - lineHeight * (linesCount - 1)
      [] OTHER -> rect.y

\* innerRect of drawCellValue
InnerRect(cell, pixelPadding) ==
    [x |-> cell.x + pixelPadding, y |-> cell.y + pixelPadding,
     width |-> cell.width - pixelPadding * 2, height |-> cell.height - pixelPadding * 2]

\* the lines drawCellValue asks for; Null when the call throws
CellValueLines(cell, pixelPadding) ==
    getCanvasCellValueLines(cell.text.value, cell.text.alignment.wrapText, cell.text.font,
                            InnerRect(cell, pixelPadding).width, TOKEN_SPLITTER_REGEX)

\* ctx.fillText(line, textX, textY, maxWidth) for the i-th line
FillText(draw, cell, lines, i, innerRect) ==
    [op |-> "fillText", draw |-> draw, line |-> lines[i],
     x |-> getTextX(cell.text.alignment.horizontal, innerRect),
     y |-> getStartTextY(cell.text.alignment.vertical, innerRect, cell.text.lineHeight,
                         Len(lines)) + (i - 1) * cell.text.lineHeight,
     maxWidth |-> IF cell.text.alignment.shrinkToFit THEN Some(innerRect.width) ELSE Null,
     cell |-> Some(cell)]

FillTexts(draw, cell, lines, innerRect) ==
    [i \in 1 .. Len(lines) |-> FillText(draw, cell, lines, i, innerRect)]

\* what drawCellValue paints; nothing when getCanvasCellValueLines throws
drawCellValue(cell, pixelPadding, draw) ==
    IF IsNull(CellValueLines(cell, pixelPadding)) THEN <<>>
    ELSE FillTexts(draw, cell, Get(CellValueLines(cell, pixelPadding)),
                   InnerRect(cell, pixelPadding))

\* drawBorder: the sub-path moveTo(x1, y1) lineTo(x2, y2) added to the current path, with
\* the border whose colour, width and dash the context holds from then on
drawBorder(border, side, x1, y1, x2, y2) ==
    IF border.style = "none" THEN <<>>
    ELSE <<[side |-> side, x1 |-> x1, y1 |-> y1, x2 |-> x2, y2 |-> y2, border |-> border]>>

\* the sub-paths of the path that drawCellBorders begins
BorderPath(cell, left, top, right, bottom) ==
    drawBorder(cell.borders.left, "left", left, top, left, bottom)
        \o drawBorder(cell.borders.top, "top", left, top, right, top)
        \o drawBorder(cell.borders.right, "right", right, top, right, bottom)
        \o drawBorder(cell.borders.bottom, "bottom", left, bottom, right, bottom)

\* ctx.stroke(): every sub-path of the path is stroked with the strokeStyle, lineWidth
\* and line dash the context has at the call, those of the last border drawn
Stroke(path, context, cell, draw) ==
    [i \in 1 .. Len(path) |->
        [op |-> "stroke", draw |-> draw, side |-> path[i].side,
         x1 |-> path[i].x1, y1 |-> path[i].y1, x2 |-> path[i].x2, y2 |-> path[i].y2,
         color |-> context.color, width |-> context.width, segments |-> context.segments,
         cell |-> Some(cell)]]

StrokePath(path, cell, draw) ==
    IF path = <<>> THEN <<>> ELSE Stroke(path, path[Len(path)].border, cell, draw)

drawCellBorders(cell, draw) ==
    StrokePath(BorderPath(cell, cell.x, cell.y, cell.x + cell.width, cell.y + cell.height),
               cell, draw)

\* background and borders, then the value
drawCell(cell, pixelPadding, draw) ==
    <<Event("drawCell", draw, cell, Some(cell))>> \o drawCellBorders(cell, draw)
        \o drawCellValue(cell, pixelPadding, draw)

\* the loop over iterCells() throws at the first cell whose drawCell throws
CellsThrow(cells, pixelPadding) ==
    \E i \in 1 .. Len(cells) : IsNull(CellValueLines(cells[i], pixelPadding))

RECURSIVE CellEventsFrom(_, _, _, _)
CellEventsFrom(cells, i, pixelPadding, draw) ==
    IF i > Len(cells) THEN <<>>
    ELSE drawCell(cells[i], pixelPadding, draw)
            \o (IF IsNull(CellValueLines(cells[i], pixelPadding)) THEN <<>>
                ELSE CellEventsFrom(cells, i + 1, pixelPadding, draw))

CellEvents(cells, pixelPadding, draw) == CellEventsFrom(cells, 1, pixelPadding, draw)

CanvasRect(size) == [x |-> 0, y |-> 0, width |-> size.width, height |-> size.height]

\* canvas.width / canvas.height are set, the background is filled, the cells are drawn
drawSheetPaint(provider, worksheet, params, draw) ==
    <<Event("resize", draw, CanvasRect(provider.canvasSize), Null),
      Event("fillRect", draw, CanvasRect(provider.canvasSize), Null)>>
        \o CellEvents(iterCells(provider, worksheet, params), params.cellPixelPadding, draw)

drawSheetCellsAfterImages(provider, worksheet, params, draw) ==
    CellEvents(iterCells(provider, worksheet, params), params.cellPixelPadding, draw)

\* what drawSheet does to the canvas once await Promise.all(promises) has resumed it
drawSheetAfterImages(provider, worksheet, params, draw) == <<>>

BitmapRequestUnchecked(arrayBuffer) == "decoding"

\* the state of createImageBitmapFromArrayBuffer(arrayBuffer) at its first await
BitmapRequest(arrayBuffer) ==
    IF determineImageType(arrayBuffer) = "unknown" THEN "done" ELSE "decoding"

\* the first steps of drawImage(ctx, image), up to its first pending promise
launchImage(image) ==
    [image |-> image,
     bitmap |-> "none",
     state |-> IF image.type = "base64" THEN "fetching" ELSE BitmapRequest(image.data)]

\* the promise of drawSheet, which awaits Promise.all(promises)
PromiseAll(status, tasks) ==
    IF status # "pending" THEN status
    ELSE IF \E i \in 1 .. Len(tasks) : tasks[i].state = "rejected" THEN "rejected"
    ELSE IF \A i \in 1 .. Len(tasks) : tasks[i].state = "done" THEN "fulfilled"
    ELSE "pending"

Launched(images) == [i \in 1 .. Len(images) |-> launchImage(images[i])]

DrawRecord(worksheet, params, dataProvider, tasks) ==
    [worksheet |-> worksheet, params |-> params, provider |-> dataProvider,
     status |-> PromiseAll("pending", tasks), tasks |-> tasks]

\* a drawSheet whose loop over the cells threw: its promise is rejected, no image is launched
Thrown(worksheet, params, dataProvider) ==
    [worksheet |-> worksheet, params |-> params, provider |-> dataProvider,
     status |-> "rejected", tasks |-> <<>>]

\* drawSheet up to its await, for the data provider it created
DrawnWith(dataProvider, worksheet, params, draw) ==
    IF IsNull(dataProvider)
    THEN [resized |-> FALSE, size |-> [width |-> 0, height |-> 0], events |-> <<>>,
          record |-> DrawRecord(worksheet, params, Null, <<>>)]
    ELSE [resized |-> TRUE, size |-> Get(dataProvider).canvasSize,
          events |-> drawSheetPaint(Get(dataProvider), worksheet, params, draw),
          record |-> IF CellsThrow(iterCells(Get(dataProvider), worksheet, params),
                                   params.cellPixelPadding)
                       THEN Thrown(worksheet, params, dataProvider)
                       ELSE DrawRecord(worksheet, params, dataProvider,
                                       Launched(getCanvasImages(worksheet, Get(dataProvider),
                                                                params.scale)))]

drawSheet(worksheet, params, draw) ==
    DrawnWith(createSheetDataProvider(worksheet, params), worksheet, params, draw)

(***************************************************************************)
(* The image tasks' continuations.                                         *)
(***************************************************************************)
ImageEvent(image, draw) == Event("drawImage", draw, image, Null)

drawBufferImageNoClose(image, draw) ==
    [events |-> <<ImageEvent(image, draw)>>, bitmap |-> "open"]

\* drawBufferImage once createImageBitmapFromArrayBuffer gave a bitmap
drawBufferImage(image, draw) ==
    [events |-> <<ImageEvent(image, draw)>>, bitmap |-> "closed"]

\* drawBase64Image once createImageBitmapFromArrayBuffer gave a bitmap
drawBase64Image(image, draw) ==
    [events |-> <<ImageEvent(image, draw)>>, bitmap |-> "closed"]

\* getArrayBufferFromBase64: the fetch of the data URL fails when the text is not base64
getArrayBufferFromBase64(base64) == base64.buffer

\* the ArrayBuffer a task hands to createImageBitmapFromArrayBuffer
TaskBuffer(task) ==
    IF task.image.type = "base64" THEN Get(getArrayBufferFromBase64(task.image.data))
    ELSE task.image.data

\* what drawSheet does when its promise goes from status before to status after
Resumption(before, after, record, d) ==
    IF before = "pending" /\ after = "fulfilled" /\ ~IsNull(record.provider)
    THEN drawSheetAfterImages(Get(record.provider), record.worksheet, record.params, d)
    ELSE <<>>

StepDraw(d, tasks, status, newEvents) ==
    /\ draws' = [draws EXCEPT ![d] = [draws[d] EXCEPT !.tasks = tasks, !.status = status]]
    /\ events' = events \o newEvents \o Resumption(draws[d].status, status, draws[d], d)

StepTasks(d, tasks, newEvents) ==
    StepDraw(d, tasks, PromiseAll(draws[d].status, tasks), newEvents)

\* draw d's record and the canvas events after task i took a step
StepTask(d, i, task, newEvents) ==
    StepTasks(d, [draws[d].tasks EXCEPT ![i] = task], newEvents)

(***************************************************************************)
(* The state machine.                                                      *)
(***************************************************************************)
Init ==
    /\ canvas = [width |-> 300, height |-> 150, style |-> [width |-> Null, height |-> Null]]
    /\ events = <<>>
    /\ draws = <<>>
    /\ renders = <<>>
    /\ probe = Null
    /\ lazyResult = [initial |-> TRUE, data |-> Null, error |-> Null]
    /\ uploads = <<>>

\* canvas.style.width / height are cleared, or set to the raster size times scale
StyledCanvas(width, height, scale) ==
    [width |-> width, height |-> height,
     style |-> IF IsNull(scale) THEN [width |-> Null, height |-> Null]
               ELSE [width |-> Some(width * Get(scale)),
                     height |-> Some(height * Get(scale))]]

\* the effect from its call of drawSheet on
EffectDrawn(worksheet, scale, d, drawn) ==
    /\ renders' = Append(renders, [worksheet |-> worksheet, scale |-> scale, draw |-> d])
    /\ draws' = Append(draws, drawn.record)
    /\ events' = events \o drawn.events
                    \o Resumption("pending", drawn.record.status, drawn.record, d)
    /\ canvas' = StyledCanvas(IF drawn.resized THEN drawn.size.width ELSE canvas.width,
                              IF drawn.resized THEN drawn.size.height ELSE canvas.height,
                              scale)
    /\ UNCHANGED <<probe, lazyResult, uploads>>

\* The effect of ExcelCanvas: worksheet is workbook.getWorksheet(sheet), Null when undefined
ExcelCanvasEffect(worksheet, options, scale) ==
    IF IsNull(worksheet)
    THEN /\ renders' = Append(renders, [worksheet |-> Null, scale |-> scale, draw |-> 0])
         /\ UNCHANGED <<canvas, events, draws, probe, lazyResult, uploads>>
    ELSE EffectDrawn(worksheet, scale, Len(draws) + 1,
                     drawSheet(Get(worksheet),
                               getDrawingParams(MergeOptions(defaultOptions, options)),
                               Len(draws) + 1))

\* the state of a base64 image's task once getArrayBufferFromBase64 settled
Fetched(arrayBuffer) ==
    IF IsNull(arrayBuffer) THEN "done" ELSE BitmapRequest(Get(arrayBuffer))

\* the data-URL fetch of a base64 image settles
FetchSettle(d, i) ==
    /\ d \in 1 .. Len(draws)
    /\ i \in 1 .. Len(draws[d].tasks)
    /\ draws[d].tasks[i].state = "fetching"
    /\ StepTask(d, i,
                [draws[d].tasks[i] EXCEPT
                    !.state = Fetched(getArrayBufferFromBase64(draws[d].tasks[i].image.data))],
                <<>>)
    /\ UNCHANGED <<canvas, renders, probe, lazyResult, uploads>>

\* window.createImageBitmap(blob) resolves with a bitmap
DecodeResolve(d, i) ==
    /\ d \in 1 .. Len(draws)
    /\ i \in 1 .. Len(draws[d].tasks)
    /\ draws[d].tasks[i].state = "decoding"
    /\ TaskBuffer(draws[d].tasks[i]).decodes
    /\ StepTask(d, i, [draws[d].tasks[i] EXCEPT !.state = "bitmap", !.bitmap = "open"], <<>>)
    /\ UNCHANGED <<canvas, renders, probe, lazyResult, uploads>>

\* window.createImageBitmap(blob) rejects: the image task rejects with it
DecodeReject(d, i) ==
    /\ d \in 1 .. Len(draws)
    /\ i \in 1 .. Len(draws[d].tasks)
    /\ draws[d].tasks[i].state = "decoding"
    /\ ~TaskBuffer(draws[d].tasks[i]).decodes
    /\ StepTask(d, i, [draws[d].tasks[i] EXCEPT !.state = "rejected"], <<>>)
    /\ UNCHANGED <<canvas, renders, probe, lazyResult, uploads>>

\* ctx.drawImage and bitmap.close of the task's image
Painted(image, d) ==
    IF image.type = "base64" THEN drawBase64Image(image, d) ELSE drawBufferImage(image, d)

ResumeWith(d, i, painted) ==
    StepTask(d, i, [draws[d].tasks[i] EXCEPT !.state = "done", !.bitmap = painted.bitmap],
             painted.events)

\* the image task resumes with its bitmap: ctx.drawImage, bitmap.close
ResumeImage(d, i) ==
    /\ d \in 1 .. Len(draws)
    /\ i \in 1 .. Len(draws[d].tasks)
    /\ draws[d].tasks[i].state = "bitmap"
    /\ ResumeWith(d, i, Painted(draws[d].tasks[i].image, d))
    /\ UNCHANGED <<canvas, renders, probe, lazyResult, uploads>>

\* a lookup through the data provider of the latest draw
Probe(cellNumbers) ==
    /\ Len(draws) >= 1
    /\ ~IsNull(draws[Len(draws)].provider)
    /\ probe' = Some([draw |-> Len(draws), cell |-> cellNumbers,
                      range |-> getCellRangeNumbers(Get(draws[Len(draws)].provider).resolver,
                                                    cellNumbers),
                      rect |-> getCellRect(Get(draws[Len(draws)].provider), cellNumbers)])
    /\ UNCHANGED <<canvas, events, draws, renders, lazyResult, uploads>>

(***************************************************************************)
(* The worksheets and options the model renders.                           *)
(***************************************************************************)
MaxCols == 3
MaxRows == 2

\* the props' options of every render of the model
ModelOptions == [characterUnit |-> 6, dpi |-> 144, textLineHeight |-> 1]
ModelParams == getDrawingParams(MergeOptions(defaultOptions, ModelOptions))

BandKinds == {"default", "sized", "hidden", "collapsed"}

ColumnOf(number, kind) ==
    [number |-> number,
     width |-> IF kind = "sized" THEN Some(2) ELSE Null,
     hidden |-> kind = "hidden",
     collapsed |-> kind = "collapsed"]

RowOf(number, kind) ==
    [number |-> number,
     height |-> IF kind = "sized" THEN Some(20) ELSE Null,
     hidden |-> kind = "hidden",
     collapsed |-> kind = "collapsed"]

ColumnsOf(kinds) == [i \in 1 .. Len(kinds) |-> ColumnOf(i, kinds[i])]
RowsOf(kinds) == [i \in 1 .. Len(kinds) |-> RowOf(i, kinds[i])]

KindLayouts(max) == UNION {[1 .. n -> BandKinds] : n \in 1 .. max}

CellOf(col, row, text, isMerged, shrinkToFit) ==
    [col |-> col, row |-> row, text |-> Some(text), isMerged |-> isMerged, font |-> Null,
     border |-> Null,
     alignment |-> IF shrinkToFit
                   THEN Some([horizontal |-> Null, vertical |-> Null, wrapText |-> Null,
                              shrinkToFit |-> Some(TRUE)])
                   ELSE Null]

BlankCells(nCols, nRows) ==
    [a \in (1 .. nCols) \X (1 .. nRows) |-> CellOf(a[1], a[2], <<>>, FALSE, FALSE)]

\* rows is Null for a worksheet whose getRows(1, rowCount) yields undefined
WorksheetOf(columns, rows, cells, defaultColWidth, merges, images, media) ==
    [columns |-> columns, rows |-> rows, cells |-> cells,
     properties |-> [defaultColWidth |-> defaultColWidth, defaultRowHeight |-> 15],
     model |-> [merges |-> merges],
     images |-> images,
     workbook |-> [media |-> media]]

LayoutSheets ==
    {WorksheetOf(ColumnsOf(ck), Some(RowsOf(rk)), BlankCells(Len(ck), Len(rk)), dw,
                 <<>>, <<>>, <<>>) :
        ck \in KindLayouts(MaxCols), rk \in KindLayouts(MaxRows), dw \in {Null, Some(1)}}

(***************************************************************************)
(* Layout: one render of a worksheet of any column and row layout.         *)
(***************************************************************************)
RenderLayout ==
    /\ renders = <<>>
    /\ \E worksheet \in LayoutSheets : ExcelCanvasEffect(Some(worksheet), ModelOptions, Null)

NextLayout == RenderLayout

SpecLayout == Init /\ [][NextLayout]_vars

\* The worksheet and the parameters of the latest render that reached drawSheet
Rendered == renders # <<>> /\ renders[Len(renders)].draw # 0
LastDraw == draws[renders[Len(renders)].draw]

RECURSIVE Total(_, _)
Total(f, n) == IF n = 0 THEN 0 ELSE f[n] + Total(f, n - 1)

Invisible(band) == band.hidden = TRUE \/ band.collapsed = TRUE

ColumnPixels(worksheet, params, column) ==
    (IF column.width = Null
     THEN (IF worksheet.properties.defaultColWidth = Null THEN params.fallbackColCharUnitWidth
           ELSE worksheet.properties.defaultColWidth[1])
     ELSE column.width[1]) * params.scale.characterUnit * params.scale.pixelPerPoint

RowPixels(worksheet, params, row) ==
    (IF row.height = Null THEN worksheet.properties.defaultRowHeight ELSE row.height[1])
        * params.scale.pixelPerPoint

\* Sum of the pixel widths of the columns that are neither hidden nor collapsed
VisibleColumnPixels(worksheet, params) ==
    Total([i \in 1 .. Len(worksheet.columns) |->
              IF Invisible(worksheet.columns[i]) THEN 0
              ELSE ColumnPixels(worksheet, params, worksheet.columns[i])],
          Len(worksheet.columns))

\* Sum of the pixel heights of the rows that are neither hidden nor collapsed
VisibleRowPixels(worksheet, params) ==
    Total([i \in 1 .. Len(worksheet.rows[1]) |->
              IF Invisible(worksheet.rows[1][i]) THEN 0
              ELSE RowPixels(worksheet, params, worksheet.rows[1][i])],
          Len(worksheet.rows[1]))

\* C1: after drawSheet drew a worksheet that yields rows, the canvas is as wide as
\* the pixel widths of its visible columns together and as high as the pixel heights
\* of its visible rows together, a band being visible iff it is neither hidden nor
\* collapsed; the resize drawSheet made is of that size.
C1_RasterSizeIsVisibleSum ==
    (Rendered /\ LastDraw.worksheet.rows # Null) =>
        LET width == VisibleColumnPixels(LastDraw.worksheet, LastDraw.params)
            height == VisibleRowPixels(LastDraw.worksheet, LastDraw.params)
        IN /\ canvas.width = width
           /\ canvas.height = height
           /\ \E i \in 1 .. Len(events) :
                 /\ events[i].op = "resize"
                 /\ events[i].draw = renders[Len(renders)].draw
                 /\ events[i].width = width
                 /\ events[i].height = height

\* a sheet with a sized, a hidden and a collapsed column and a hidden row was drawn
C1_Witness ==
    /\ Rendered
    /\ LastDraw.worksheet.rows # Null
    /\ Len(LastDraw.worksheet.columns) = 3
    /\ LastDraw.worksheet.columns[1].width = Some(2)
    /\ LastDraw.worksheet.columns[2].hidden
    /\ LastDraw.worksheet.columns[3].collapsed
    /\ Len(LastDraw.worksheet.rows[1]) = 2
    /\ LastDraw.worksheet.rows[1][1].hidden
    /\ canvas.width = 24
    /\ canvas.height = 30

(***************************************************************************)
(* Merges: one render of a worksheet with merged ranges, then a lookup of  *)
(* one cell through the data provider.                                     *)
(***************************************************************************)
MergeCols == 2
MergeRows == 2

\* the reference of a cell ("B2") and of a range ("A1:B2") of the model's grids
RefOf(col, row) == <<UpperLetters[col], Digits[row + 1]>>
RangeRefOf(numbers) ==
    RefOf(numbers.start.col, numbers.start.row) \o <<":">>
        \o RefOf(numbers.end.col, numbers.end.row)

InRange(cellNumbers, numbers) ==
    /\ cellNumbers.col \in numbers.start.col .. numbers.end.col
    /\ cellNumbers.row \in numbers.start.row .. numbers.end.row

Disjoint(a, b) ==
    \/ a.end.col < b.start.col
    \/ b.end.col < a.start.col
    \/ a.end.row < b.start.row
    \/ b.end.row < a.start.row

\* the ranges of more than one cell of a grid
GridRanges(nCols, nRows) ==
    {[start |-> [col |-> c1, row |-> r1], end |-> [col |-> c2, row |-> r2]] :
        c1 \in 1 .. nCols, c2 \in 1 .. nCols, r1 \in 1 .. nRows, r2 \in 1 .. nRows}
    \ {[start |-> [col |-> c, row |-> r], end |-> [col |-> c, row |-> r]] :
        c \in 1 .. nCols, r \in 1 .. nRows}

ProperRanges(nCols, nRows) ==
    {g \in GridRanges(nCols, nRows) : g.start.col <= g.end.col /\ g.start.row <= g.end.row}

\* the lists of at most two merged ranges a workbook can hold: they do not overlap
MergeLists(nCols, nRows) ==
    {<<>>} \cup {<<a>> : a \in ProperRanges(nCols, nRows)}
           \cup {p \in ProperRanges(nCols, nRows) \X ProperRanges(nCols, nRows) :
                    Disjoint(p[1], p[2])}

\* the cells of a grid: texts gives the text of each address, a cell inside a merged
\* range has isMerged set
CellsOf(nCols, nRows, texts, shrunk, mergeList) ==
    [a \in (1 .. nCols) \X (1 .. nRows) |->
        CellOf(a[1], a[2], texts[a],
               \E k \in 1 .. Len(mergeList) :
                   InRange([col |-> a[1], row |-> a[2]], mergeList[k]),
               a \in shrunk)]

MergeRefs(mergeList) == [k \in 1 .. Len(mergeList) |-> RangeRefOf(mergeList[k])]

MergeSheets ==
    {WorksheetOf(ColumnsOf(ck), Some(RowsOf(rk)),
                 CellsOf(MergeCols, MergeRows,
                         [a \in (1 .. MergeCols) \X (1 .. MergeRows) |-> <<>>], {}, ml),
                 Some(1), MergeRefs(ml), <<>>, <<>>) :
        ck \in [1 .. MergeCols -> {"default", "sized"}],
        rk \in [1 .. MergeRows -> {"default", "sized"}],
        ml \in MergeLists(MergeCols, MergeRows)}

RenderMerge ==
    /\ renders = <<>>
    /\ \E worksheet \in MergeSheets : ExcelCanvasEffect(Some(worksheet), ModelOptions, Null)

ProbeCell ==
    /\ probe = Null
    /\ \E col \in 1 .. MergeCols, row \in 1 .. MergeRows : Probe([col |-> col, row |-> row])

NextMerge == RenderMerge \/ ProbeCell

SpecMerge == Init /\ [][NextMerge]_vars

\* the normalised bounds of the k-th merged range of a worksheet
MergeBounds(worksheet, k) ==
    Get(getCellRangeNumbersFromCellRangeRef(worksheet.model.merges[k]))

\* C2: for every merged range of worksheet.model.merges and every cell inside its
\* bounds, getCellRangeNumbers of that cell returns the range's normalised bounds.
C2_EveryCellOfEveryMergeResolves ==
    probe # Null =>
        LET p == Get(probe)
            worksheet == draws[p.draw].worksheet
        IN \A k \in 1 .. Len(worksheet.model.merges) :
              InRange(p.cell, MergeBounds(worksheet, k)) =>
                  p.range = Some(MergeBounds(worksheet, k))

\* the pixels of the visible columns (rows) numbered from .. to
ColumnSpan(worksheet, params, from, to) ==
    Total([i \in 1 .. Len(worksheet.columns) |->
              IF i < from \/ i > to \/ Invisible(worksheet.columns[i]) THEN 0
              ELSE ColumnPixels(worksheet, params, worksheet.columns[i])],
          Len(worksheet.columns))

RowSpan(worksheet, params, from, to) ==
    Total([i \in 1 .. Len(worksheet.rows[1]) |->
              IF i < from \/ i > to \/ Invisible(worksheet.rows[1][i]) THEN 0
              ELSE RowPixels(worksheet, params, worksheet.rows[1][i])],
          Len(worksheet.rows[1]))

\* from the left / top of the start cell to the right / bottom of the end cell
BoundingRect(worksheet, params, numbers) ==
    [x |-> ColumnSpan(worksheet, params, 1, numbers.start.col - 1),
     y |-> RowSpan(worksheet, params, 1, numbers.start.row - 1),
     width |-> ColumnSpan(worksheet, params, numbers.start.col, numbers.end.col),
     height |-> RowSpan(worksheet, params, numbers.start.row, numbers.end.row)]

\* C3: for every merged range M of the sheet and every cell inside M, getCellRect of
\* the cell is the bounding rect of M.
C3_CellRectIsBoundingRectOfMerge ==
    probe # Null =>
        LET p == Get(probe)
            worksheet == draws[p.draw].worksheet
        IN \A k \in 1 .. Len(worksheet.model.merges) :
              InRange(p.cell, MergeBounds(worksheet, k)) =>
                  p.rect = Some(BoundingRect(worksheet, draws[p.draw].params,
                                             MergeBounds(worksheet, k)))

(***************************************************************************)
(* Draw order: one render of a worksheet of three columns and two rows     *)
(* whose cells hold texts of every length up to MaxTextLen, with up to two *)
(* merged ranges.                                                          *)
(***************************************************************************)
MaxTextLen == 2

OrderColumnKinds == <<"default", "default", "default">>
OrderRowLayouts == {<<"default", "default">>, <<"hidden", "default">>}

OrderGrid == (1 .. Len(OrderColumnKinds)) \X (1 .. 2)

TextOf(n) == [i \in 1 .. n |-> "x"]

ColumnRange(col) == [start |-> [col |-> col, row |-> 1], end |-> [col |-> col, row |-> 2]]

\* no merged range, or the first column merged, or the first two in either order
OrderMergeLists ==
    {<<>>, <<ColumnRange(1)>>, <<ColumnRange(1), ColumnRange(2)>>,
     <<ColumnRange(2), ColumnRange(1)>>}

\* the cells of a merged range other than its start cell
IsSlave(a, mergeList) ==
    \E k \in 1 .. Len(mergeList) :
        /\ InRange([col |-> a[1], row |-> a[2]], mergeList[k])
        /\ <<a[1], a[2]>> # <<mergeList[k].start.col, mergeList[k].start.row>>

OrderLengths(mergeList) ==
    {t \in [OrderGrid -> 0 .. MaxTextLen] : \A a \in OrderGrid : IsSlave(a, mergeList) => t[a] = 0}

\* at most one cell of the sheet, of its first row, has alignment.shrinkToFit
OrderShrunk == {{}} \cup {{a} : a \in {g \in OrderGrid : g[2] = 1}}

OrderSheet(rk, ml, lengths, shrunk) ==
    WorksheetOf(ColumnsOf(OrderColumnKinds), Some(RowsOf(rk)),
                CellsOf(Len(OrderColumnKinds), 2, [a \in OrderGrid |-> TextOf(lengths[a])],
                        shrunk, ml),
                Some(1), MergeRefs(ml), <<>>, <<>>)

RenderOrder ==
    /\ renders = <<>>
    /\ \E rk \in OrderRowLayouts, ml \in OrderMergeLists, shrunk \in OrderShrunk :
          \E lengths \in OrderLengths(ml) :
              ExcelCanvasEffect(Some(OrderSheet(rk, ml, lengths, shrunk)), ModelOptions, Null)

NextOrder == RenderOrder

SpecOrder == Init /\ [][NextOrder]_vars

\* the cells painted, in the order of their painting
IsCellPaint(e) == e.op = "drawCell"
CellPaints == SelectSeq(events, IsCellPaint)
PaintedCell(i) == Get(CellPaints[i].cell)

\* the bucket of a painted cell: its value is empty, fits its width, or does not
Bucket(cell) ==
    IF Len(cell.text.value) = 0 THEN "empty"
    ELSE IF /\ ~cell.text.alignment.shrinkToFit
            /\ Len(cell.text.value) * (cell.text.font.px \div 2) < cell.width
    THEN "fit"
    ELSE "overflow"

\* the draw phase of a painted cell: 0 for the merged cells, else the number of its row
Phase(cell) == IF cell.source.isMerged THEN 0 ELSE cell.source.row

SamePhase(i, j) ==
    /\ CellPaints[i].draw = CellPaints[j].draw
    /\ Phase(PaintedCell(i)) = Phase(PaintedCell(j))

OverflowLast(bucket) == CASE bucket = "empty" -> 0 [] bucket = "fit" -> 1 [] bucket = "overflow" -> 2
FitLast(bucket) == CASE bucket = "empty" -> 0 [] bucket = "overflow" -> 1 [] bucket = "fit" -> 2

MergeIndex(d, cell) ==
    CHOOSE k \in 1 .. Len(draws[d].worksheet.model.merges) :
        MergeBounds(draws[d].worksheet, k).start = [col |-> cell.source.col, row |-> cell.source.row]

\* C5: in one draw every merged cell is painted before any non-merged cell, merged
\* cells of the same overflow bucket keep their order of model.merges, and every
\* non-merged cell of an earlier visible row is painted before any cell of a later one.
C5_MergedFirstThenRowByRow ==
    \A i \in 1 .. Len(CellPaints), j \in 1 .. Len(CellPaints) :
        (i < j /\ CellPaints[i].draw = CellPaints[j].draw) =>
            /\ PaintedCell(j).source.isMerged => PaintedCell(i).source.isMerged
            /\ (/\ PaintedCell(i).source.isMerged
                /\ PaintedCell(j).source.isMerged
                /\ Bucket(PaintedCell(i)) = Bucket(PaintedCell(j))) =>
                    MergeIndex(CellPaints[i].draw, PaintedCell(i))
                        < MergeIndex(CellPaints[j].draw, PaintedCell(j))
            /\ (~PaintedCell(i).source.isMerged /\ ~PaintedCell(j).source.isMerged) =>
                    PaintedCell(i).source.row <= PaintedCell(j).source.row

\* two merged cells of one bucket, listed second-column first, and non-merged cells of
\* two rows were painted
C5_Witness ==
    /\ Len(draws) = 1
    /\ draws[1].worksheet.model.merges = MergeRefs(<<ColumnRange(2), ColumnRange(1)>>)
    /\ \E i \in 1 .. Len(CellPaints), j \in 1 .. Len(CellPaints) :
          /\ PaintedCell(i).source.isMerged
          /\ PaintedCell(j).source.isMerged
          /\ i < j
          /\ Bucket(PaintedCell(i)) = Bucket(PaintedCell(j))
    /\ \E i \in 1 .. Len(CellPaints), j \in 1 .. Len(CellPaints) :
          /\ ~PaintedCell(i).source.isMerged
          /\ ~PaintedCell(j).source.isMerged
          /\ PaintedCell(i).source.row < PaintedCell(j).source.row

(***************************************************************************)
(* Renders and images: up to MaxRenders renders on one canvas of a         *)
(* worksheet of one cell with up to MaxImages images, the image tasks of   *)
(* every draw running between and after the renders.                       *)
(***************************************************************************)
MaxImages == 2
MaxRenders == 2

PngBytes == <<137, 80, 78, 71, 13, 10, 26, 10>>

\* a png, a png the platform fails to decode, bytes of no known type; the first two
\* also as base64 text, and a text that is not base64
ImageKinds == {"buffer", "corrupt", "unknown", "base64", "notBase64"}

ArrayBufferOf(kind) ==
    CASE kind \in {"buffer", "base64"} -> [bytes |-> PngBytes, decodes |-> TRUE]
      [] kind = "corrupt" -> [bytes |-> PngBytes, decodes |-> FALSE]
      [] kind = "unknown" -> [bytes |-> <<0, 0>>, decodes |-> FALSE]

\* the entry of workbook.media of an image of a kind
MediaOf(kind) ==
    CASE kind \in {"buffer", "corrupt", "unknown"} ->
             [base64 |-> Null, buffer |-> Some(ArrayBufferOf(kind))]
      [] kind = "base64" -> [base64 |-> Some([buffer |-> Some(ArrayBufferOf(kind))]), buffer |-> Null]
      [] kind = "notBase64" -> [base64 |-> Some([buffer |-> Null]), buffer |-> Null]

\* the i-th image of the sheet: its id is the text of i - 1, it covers cell A1
SheetImageOf(i) ==
    [imageId |-> [isString |-> TRUE, value |-> <<Digits[i]>>],
     range |-> [string |-> Some(RefOf(1, 1))]]

ImageSheet(kinds) ==
    WorksheetOf(ColumnsOf(<<"default">>), Some(RowsOf(<<"default">>)),
                CellsOf(1, 1, [a \in (1 .. 1) \X (1 .. 1) |-> TextOf(1)], {}, <<>>),
                Some(1), <<>>,
                [i \in 1 .. Len(kinds) |-> SheetImageOf(i)],
                [i \in 1 .. Len(kinds) |-> MediaOf(kinds[i])])

\* a worksheet whose getRows yields undefined
NoRowsSheet ==
    WorksheetOf(ColumnsOf(<<"default">>), Null, BlankCells(1, 1), Some(1), <<>>, <<>>, <<>>)

KindLists == UNION {[1 .. n -> ImageKinds] : n \in 0 .. MaxImages}

\* workbook.getWorksheet(sheet): Null when the workbook has no such worksheet
RenderedSheets == {Null, Some(NoRowsSheet)} \cup {Some(ImageSheet(kinds)) : kinds \in KindLists}

Scales == {Null, Some(2)}

RenderAsync ==
    /\ Len(renders) < MaxRenders
    /\ \E worksheet \in RenderedSheets, scale \in Scales :
          ExcelCanvasEffect(worksheet, ModelOptions, scale)

Fetch == \E d \in 1 .. MaxRenders, i \in 1 .. MaxImages : FetchSettle(d, i)
Decode == \E d \in 1 .. MaxRenders, i \in 1 .. MaxImages : DecodeResolve(d, i)
DecodeFail == \E d \in 1 .. MaxRenders, i \in 1 .. MaxImages : DecodeReject(d, i)
Resume == \E d \in 1 .. MaxRenders, i \in 1 .. MaxImages : ResumeImage(d, i)

NextAsync == RenderAsync \/ Fetch \/ Decode \/ DecodeFail \/ Resume

SpecAsync == Init /\ [][NextAsync]_vars

\* one render of a worksheet with images, and the image tasks of its draw
RenderImages ==
    /\ renders = <<>>
    /\ \E kinds \in KindLists, scale \in Scales :
          ExcelCanvasEffect(Some(ImageSheet(kinds)), ModelOptions, scale)

NextImages == RenderImages \/ Fetch \/ Decode \/ DecodeFail \/ Resume

SpecImages == Init /\ [][NextImages]_vars

\* C6: once a later draw has resized and repainted the canvas, no image of an earlier
\* draw is painted onto it.
C6_NoStaleImageAfterLaterDraw ==
    \A i \in 1 .. Len(events), j \in 1 .. Len(events) :
        (i < j /\ events[i].op = "resize" /\ events[j].op = "drawImage") =>
            events[j].draw >= events[i].draw

\* C7: within one draw every cell is painted before the first image is drawn.
C7_CellsBeforeImages ==
    \A i \in 1 .. Len(events), j \in 1 .. Len(events) :
        (/\ i < j
         /\ events[i].draw = events[j].draw
         /\ events[i].op = "drawImage") => events[j].op # "drawCell"

\* a draw painted its cell, its two images were drawn, and its promise is fulfilled
C7_Witness ==
    \E d \in 1 .. Len(draws) :
        /\ draws[d].status = "fulfilled"
        /\ \E i \in 1 .. Len(events) : events[i].draw = d /\ events[i].op = "drawCell"
        /\ \E i \in 1 .. Len(events), j \in 1 .. Len(events) :
              /\ i < j
              /\ events[i].draw = d
              /\ events[j].draw = d
              /\ events[i].op = "drawImage"
              /\ events[j].op = "drawImage"

IsSettled(task) == task.state \in {"done", "rejected"}

\* C8: the promise of drawSheet fulfils or rejects only once every image promise the
\* draw launched has settled.
C8_DrawSettlesAfterAllImages ==
    \A d \in 1 .. Len(draws) :
        draws[d].status # "pending" =>
            \A i \in 1 .. Len(draws[d].tasks) : IsSettled(draws[d].tasks[i])

\* C9: every bitmap created during a draw is closed once its image task has drawn it,
\* and it is closed only after the drawImage call of its draw.
C9_BitmapsClosedAfterDrawImage ==
    \A d \in 1 .. Len(draws) : \A i \in 1 .. Len(draws[d].tasks) :
        /\ IsSettled(draws[d].tasks[i]) => draws[d].tasks[i].bitmap # "open"
        /\ draws[d].tasks[i].bitmap = "closed" =>
              \E k \in 1 .. Len(events) :
                  /\ events[k].op = "drawImage"
                  /\ events[k].draw = d
                  /\ events[k].x = draws[d].tasks[i].image.x
                  /\ events[k].width = draws[d].tasks[i].image.width

\* a draw of a buffer image and a base64 image closed both bitmaps
C9_Witness ==
    \E d \in 1 .. Len(draws) :
        /\ Len(draws[d].tasks) = 2
        /\ draws[d].tasks[1].image.type = "buffer"
        /\ draws[d].tasks[2].image.type = "base64"
        /\ draws[d].tasks[1].bitmap = "closed"
        /\ draws[d].tasks[2].bitmap = "closed"

\* C10: after a render without scale the canvas has no style width / height; after a
\* render with scale that drew a raster, they are the raster's size times scale.
C10_PresentationSizeFollowsScale ==
    renders # <<>> =>
        LET last == renders[Len(renders)] IN
        /\ IsNull(last.scale) => canvas.style = [width |-> Null, height |-> Null]
        /\ (~IsNull(last.scale) /\ last.draw # 0) =>
              canvas.style = [width |-> Some(canvas.width * Get(last.scale)),
                              height |-> Some(canvas.height * Get(last.scale))]

(***************************************************************************)
(* Textual image ranges: one render of a worksheet of any column layout    *)
(* with one image whose range is a textual range over the grid.            *)
(***************************************************************************)
RowKinds == {"default", "hidden"}
RowLayouts(max) == UNION {[1 .. n -> RowKinds] : n \in 1 .. max}

\* an image of id "0" with a textual range
RangeImageOf(ref) ==
    [imageId |-> [isString |-> TRUE, value |-> <<Digits[1]>>],
     range |-> [string |-> Some(ref)]]

\* the ranges from a cell of the first row to a cell of the last row
SpanRanges(nCols, nRows) ==
    {[start |-> [col |-> g[1], row |-> 1], end |-> [col |-> g[2], row |-> nRows]] :
        g \in {h \in (1 .. nCols) \X (1 .. nCols) : h[1] <= h[2]}}

RangeSheet(ck, rk, numbers) ==
    WorksheetOf(ColumnsOf(ck), Some(RowsOf(rk)), BlankCells(Len(ck), Len(rk)), Some(1),
                <<>>, <<RangeImageOf(RangeRefOf(numbers))>>, <<MediaOf("buffer")>>)

RenderRange ==
    /\ renders = <<>>
    /\ \E ck \in KindLayouts(MaxCols), rk \in RowLayouts(MaxRows) :
          \E numbers \in SpanRanges(Len(ck), Len(rk)) :
              ExcelCanvasEffect(Some(RangeSheet(ck, rk, numbers)), ModelOptions, Null)

NextRange == RenderRange

SpecRange == Init /\ [][NextRange]_vars

\* the bands of a layout are those of the visible columns (rows), each where the
\* visible ones before it end
BandsAreVisibleOnes(bands, sheetBands, offset, Span(_, _)) ==
    /\ \A i \in 1 .. Len(sheetBands) :
          Invisible(sheetBands[i]) <=> (\A k \in 1 .. Len(bands) : bands[k].number # i)
    /\ \A k \in 1 .. Len(bands) : bands[k][offset] = Span(1, bands[k].number - 1)
    /\ \A k \in 1 .. Len(bands), l \in 1 .. Len(bands) :
          k < l => bands[k].number < bands[l].number

\* C11: hidden or collapsed columns / rows are no canvas bands and add nothing to
\* canvasSize, the x / y of a band is the sum of the sizes of the visible bands before
\* it, and a textual range whose end columns and rows are visible resolves to the rect
\* from its start cell to its end cell over the visible bands only: the full raster
\* width when it runs from the first to the last visible column.
C11_HiddenBandsTakeNoSpace ==
    Rendered =>
        LET worksheet == LastDraw.worksheet
            params == LastDraw.params
            provider == Get(LastDraw.provider)
            numbers == MergeBounds([model |-> [merges |->
                           <<Get(worksheet.images[1].range.string)>>]], 1)
            ColSpan(a, b) == ColumnSpan(worksheet, params, a, b)
            RSpan(a, b) == RowSpan(worksheet, params, a, b)
            endsVisible ==
                /\ ~Invisible(worksheet.columns[numbers.start.col])
                /\ ~Invisible(worksheet.columns[numbers.end.col])
                /\ ~Invisible(worksheet.rows[1][numbers.start.row])
                /\ ~Invisible(worksheet.rows[1][numbers.end.row])
        IN /\ BandsAreVisibleOnes(provider.canvasColumns, worksheet.columns, "x", ColSpan)
           /\ BandsAreVisibleOnes(provider.canvasRows, worksheet.rows[1], "y", RSpan)
           /\ provider.canvasSize = [width |-> VisibleColumnPixels(worksheet, params),
                                     height |-> VisibleRowPixels(worksheet, params)]
           /\ endsVisible <=> Len(LastDraw.tasks) = 1
           /\ endsVisible =>
                 /\ LastDraw.tasks[1].image.x = ColSpan(1, numbers.start.col - 1)
                 /\ LastDraw.tasks[1].image.width = ColSpan(numbers.start.col, numbers.end.col)
                 /\ LastDraw.tasks[1].image.y = RSpan(1, numbers.start.row - 1)
                 /\ LastDraw.tasks[1].image.height = RSpan(numbers.start.row, numbers.end.row)
                 /\ (/\ ColSpan(1, numbers.start.col - 1) = 0
                     /\ ColSpan(numbers.end.col + 1, Len(worksheet.columns)) = 0) =>
                        /\ LastDraw.tasks[1].image.x = 0
                        /\ LastDraw.tasks[1].image.width = canvas.width

\* columns A, B, C with B hidden and an image over A1:C1: column C starts where A
\* ends and the image covers the raster's width
C11_Witness ==
    /\ Rendered
    /\ Len(LastDraw.worksheet.columns) = 3
    /\ LastDraw.worksheet.columns[2].hidden
    /\ Get(LastDraw.worksheet.images[1].range.string) = <<"A", "1", ":", "C", "1">>
    /\ Len(Get(LastDraw.provider).canvasColumns) = 2
    /\ Get(LastDraw.provider).canvasColumns[2] = [number |-> 3, x |-> 12, width |-> 12]
    /\ Len(LastDraw.tasks) = 1
    /\ LastDraw.tasks[1].image.x = 0
    /\ LastDraw.tasks[1].image.width = 24
    /\ canvas.width = 24

(***************************************************************************)
(* Cell rects: one render of a worksheet of any column layout, with or     *)
(* without the merged range A1:B1, then a lookup of one cell.              *)
(***************************************************************************)
FirstRowMerge == [start |-> [col |-> 1, row |-> 1], end |-> [col |-> 2, row |-> 1]]

RectMergeLists(nCols) == IF nCols >= 2 THEN {<<>>, <<FirstRowMerge>>} ELSE {<<>>}

RectSheet(ck, rk, ml) ==
    WorksheetOf(ColumnsOf(ck), Some(RowsOf(rk)),
                CellsOf(Len(ck), Len(rk),
                        [a \in (1 .. Len(ck)) \X (1 .. Len(rk)) |-> <<>>], {}, ml),
                Some(1), MergeRefs(ml), <<>>, <<>>)

RenderRect ==
    /\ renders = <<>>
    /\ \E ck \in KindLayouts(MaxCols), rk \in RowLayouts(MaxRows) :
          \E ml \in RectMergeLists(Len(ck)) :
              ExcelCanvasEffect(Some(RectSheet(ck, rk, ml)), ModelOptions, Null)

ProbeRect ==
    /\ probe = Null
    /\ \E col \in 1 .. MaxCols, row \in 1 .. MaxRows : Probe([col |-> col, row |-> row])

NextRect == RenderRect \/ ProbeRect

SpecRect == Init /\ [][NextRect]_vars

\* the cell looked up is a cell of the sheet whose column and row are visible
ProbedVisible ==
    /\ probe # Null
    /\ Get(probe).cell.col <= Len(draws[Get(probe).draw].worksheet.columns)
    /\ Get(probe).cell.row <= Len(draws[Get(probe).draw].worksheet.rows[1])
    /\ ~Invisible(draws[Get(probe).draw].worksheet.columns[Get(probe).cell.col])
    /\ ~Invisible(draws[Get(probe).draw].worksheet.rows[1][Get(probe).cell.row])

\* the rect of the lookup starts where the visible columns and rows before the cell end
ProbedAtVisibleSums ==
    /\ Get(probe).rect # Null
    /\ Get(Get(probe).rect).x =
          ColumnSpan(draws[Get(probe).draw].worksheet, draws[Get(probe).draw].params,
                     1, Get(probe).cell.col - 1)
    /\ Get(Get(probe).rect).y =
          RowSpan(draws[Get(probe).draw].worksheet, draws[Get(probe).draw].params,
                  1, Get(probe).cell.row - 1)

ProbedInMerge ==
    \E k \in 1 .. Len(draws[Get(probe).draw].worksheet.model.merges) :
        InRange(Get(probe).cell, MergeBounds(draws[Get(probe).draw].worksheet, k))

\* C12 as stated: for any visible cell (c,r), getCellRect(c,r).x is the sum of the
\* widths of the visible columns before c and .y the sum of the heights of the visible
\* rows before r.
C12_CellRectAtVisibleSums == ProbedVisible => ProbedAtVisibleSums

\* C12 amended: for any visible cell (c,r) that lies in no merged range of the sheet,
\* getCellRect(c,r).x is the sum of the widths of the visible columns before c and .y
\* the sum of the heights of the visible rows before r.
C12_UnmergedCellRectAtVisibleSums ==
    (ProbedVisible /\ ~ProbedInMerge) => ProbedAtVisibleSums

\* the cell C2 of a sheet whose column A is hidden and whose row 1 is hidden was looked up
C12_Witness ==
    /\ ProbedVisible
    /\ ~ProbedInMerge
    /\ Get(probe).cell = [col |-> 3, row |-> 2]
    /\ draws[Get(probe).draw].worksheet.columns[1].hidden
    /\ draws[Get(probe).draw].worksheet.rows[1][1].hidden
    /\ Get(probe).rect = Some([x |-> 12, y |-> 0, width |-> 12, height |-> 30])

(***************************************************************************)
(* The 3 x 3 grid with the merged range A1:B2: one render of the grid with *)
(* uniform columns and rows and texts of every length in its cells.        *)
(***************************************************************************)
GridMerge == [start |-> [col |-> 1, row |-> 1], end |-> [col |-> 2, row |-> 2]]
GridCells == (1 .. 3) \X (1 .. 3)
GridKinds == {"default", "sized"}

GridLengths ==
    {t \in [GridCells -> 0 .. MaxTextLen] :
        \A a \in GridCells : IsSlave(a, <<GridMerge>>) => t[a] = 0}

GridSheet(ck, rk, lengths) ==
    WorksheetOf(ColumnsOf(<<ck, ck, ck>>), Some(RowsOf(<<rk, rk, rk>>)),
                CellsOf(3, 3, [a \in GridCells |-> TextOf(lengths[a])], {}, <<GridMerge>>),
                Some(1), MergeRefs(<<GridMerge>>), <<>>, <<>>)

RenderGrid ==
    /\ renders = <<>>
    /\ \E ck \in GridKinds, rk \in GridKinds, lengths \in GridLengths :
          ExcelCanvasEffect(Some(GridSheet(ck, rk, lengths)), ModelOptions, Null)

NextGrid == RenderGrid

SpecGrid == Init /\ [][NextGrid]_vars

\* the paints of the cell at an address, and the paints of non-merged cells
PaintsOf(col, row) ==
    {i \in 1 .. Len(CellPaints) :
        PaintedCell(i).source.col = col /\ PaintedCell(i).source.row = row}
IndividualPaints == {i \in 1 .. Len(CellPaints) : ~PaintedCell(i).source.isMerged}
IndividualCells ==
    {<<PaintedCell(i).source.col, PaintedCell(i).source.row>> : i \in IndividualPaints}

\* the merged cell is painted once, at (0, 0, 2 colWidthPx, 2 rowHeightPx)
MergedPaintedOnce ==
    /\ Cardinality(PaintsOf(1, 1)) = 1
    /\ \A i \in PaintsOf(1, 1) :
          /\ PaintedCell(i).source.isMerged
          /\ PaintedCell(i).x = 0
          /\ PaintedCell(i).y = 0
          /\ PaintedCell(i).width =
                2 * ColumnPixels(LastDraw.worksheet, LastDraw.params,
                                 LastDraw.worksheet.columns[1])
          /\ PaintedCell(i).height =
                2 * RowPixels(LastDraw.worksheet, LastDraw.params,
                              LastDraw.worksheet.rows[1][1])

\* every cell painted individually is painted once, at its own rect
IndividualsPaintedOnce ==
    \A i \in IndividualPaints :
        /\ Cardinality(PaintsOf(PaintedCell(i).source.col, PaintedCell(i).source.row)) = 1
        /\ PaintedCell(i).x =
              ColumnSpan(LastDraw.worksheet, LastDraw.params, 1, PaintedCell(i).source.col - 1)
        /\ PaintedCell(i).y =
              RowSpan(LastDraw.worksheet, LastDraw.params, 1, PaintedCell(i).source.row - 1)
        /\ PaintedCell(i).width =
              ColumnPixels(LastDraw.worksheet, LastDraw.params, LastDraw.worksheet.columns[1])
        /\ PaintedCell(i).height =
              RowPixels(LastDraw.worksheet, LastDraw.params, LastDraw.worksheet.rows[1][1])

\* C13 as stated: on the 3 x 3 grid with the single merge A1:B2, one draw paints the
\* merged cell exactly once at (0, 0, 2 colWidthPx, 2 rowHeightPx) and paints the other
\* seven cells individually, each exactly once.
C13_MergedOnceAndSevenOthers ==
    Rendered =>
        /\ MergedPaintedOnce
        /\ IndividualsPaintedOnce
        /\ Cardinality(IndividualCells) = 7

\* C13 amended: on the 3 x 3 grid with the single merge A1:B2, one draw paints the
\* merged cell exactly once at (0, 0, 2 colWidthPx, 2 rowHeightPx) and paints the other
\* five cells (C1, C2, A3, B3, C3: those outside the merged range) individually, each
\* exactly once.
C13_MergedOnceAndFiveOthers ==
    Rendered =>
        /\ MergedPaintedOnce
        /\ IndividualsPaintedOnce
        /\ IndividualCells = GridCells \ ((1 .. 2) \X (1 .. 2))
        /\ Len(CellPaints) = 6

\* the grid with sized columns was drawn: the merged cell is 48 pixels wide
C13_Witness ==
    /\ Rendered
    /\ Len(CellPaints) = 6
    /\ \E i \in PaintsOf(1, 1) : PaintedCell(i).width = 48 /\ PaintedCell(i).height = 60
    /\ \E i \in PaintsOf(3, 3) : PaintedCell(i).x = 48 /\ PaintedCell(i).y = 60

(***************************************************************************)
(* Wrapped values: a sheet of one cell, A1, whose column is 1, 2 or 4      *)
(* character units wide (inner widths 4, 16 and 40 pixels, a character     *)
(* advancing 10) and whose value is any text of a word character, a blank  *)
(* and a line break.                                                       *)
(***************************************************************************)
MaxWrapLen == 4

WrapAlphabet == {"x", " ", NEWLINE}
WrapTexts == UNION {[1 .. n -> WrapAlphabet] : n \in 0 .. MaxWrapLen}
WrapWidths == {Null, Some(2), Some(4)}

WrapCell(text, wrapText) ==
    [col |-> 1, row |-> 1, text |-> Some(text), isMerged |-> FALSE, font |-> Null,
     border |-> Null,
     alignment |-> Some([horizontal |-> Null, vertical |-> Null,
                         wrapText |-> Some(wrapText), shrinkToFit |-> Null])]

WrapSheet(width, text, wrapText) ==
    WorksheetOf(<<[ColumnOf(1, "default") EXCEPT !.width = width]>>,
                Some(RowsOf(<<"default">>)),
                [a \in {<<1, 1>>} |-> WrapCell(text, wrapText)],
                Some(1), <<>>, <<>>, <<>>)

RenderWrap ==
    /\ renders = <<>>
    /\ \E width \in WrapWidths, text \in WrapTexts, wrapText \in BOOLEAN :
          ExcelCanvasEffect(Some(WrapSheet(width, text, wrapText)), ModelOptions, Null)

NextWrap == RenderWrap

SpecWrap == Init /\ [][NextWrap]_vars

\* the lines the draw wrote for cell A1, in the order of the fillText calls
TextLines == SelectSeq(events, LAMBDA e : e.op = "fillText")
RECURSIVE Joined(_)
Joined(lines) == IF lines = <<>> THEN <<>> ELSE lines[1].line \o Joined(Tail(lines))

DrawnValue == Get(LastDraw.worksheet.cells[<<1, 1>>].text)
DrawnWrap == Get(Get(LastDraw.worksheet.cells[<<1, 1>>].alignment).wrapText)
DrawnFont == getCanvasFont(Null, LastDraw.params)
DrawnInnerWidth ==
    ColumnPixels(LastDraw.worksheet, LastDraw.params, LastDraw.worksheet.columns[1])
        - 2 * LastDraw.params.cellPixelPadding

\* a single word: one or more word characters and nothing else
SingleWord(value) == value # <<>> /\ \A i \in 1 .. Len(value) : ~IsNonWord(value[i])

\* C14: with wrapText = true and a single-word value wider than the cell's inner width,
\* the lines drawn for the cell are the word broken character by character: every
\* fragment measures less than the width and the fragments, in order, spell the word
\* (no character is discarded).
C14_WordBrokenIntoFittingFragments ==
    (/\ Rendered
     /\ DrawnWrap
     /\ SingleWord(DrawnValue)
     /\ measureTextWidth(DrawnFont, DrawnValue) >= DrawnInnerWidth)
        => /\ \A i \in 1 .. Len(TextLines) :
                 measureTextWidth(DrawnFont, TextLines[i].line) < DrawnInnerWidth
           /\ Joined(TextLines) = DrawnValue
           /\ LastDraw.status = "fulfilled"

\* the same, for the cells in which one character fits: the word is broken and kept whole
C14_WordBrokenWhereACharacterFits ==
    (/\ Rendered
     /\ DrawnWrap
     /\ SingleWord(DrawnValue)
     /\ measureTextWidth(DrawnFont, DrawnValue) >= DrawnInnerWidth
     /\ measureTextWidth(DrawnFont, <<"x">>) < DrawnInnerWidth)
        => /\ \A i \in 1 .. Len(TextLines) :
                 measureTextWidth(DrawnFont, TextLines[i].line) < DrawnInnerWidth
           /\ Joined(TextLines) = DrawnValue
           /\ Len(TextLines) > 1
           /\ LastDraw.status = "fulfilled"

\* a word of four characters was broken into lines in a column of inner width 16
C14_Broken ==
    /\ Rendered
    /\ DrawnWrap
    /\ DrawnValue = <<"x", "x", "x", "x">>
    /\ DrawnInnerWidth = 16
    /\ Len(TextLines) = 4

\* the draw of a wrapped word in the column of inner width 4 threw
C14_Thrown ==
    /\ Rendered
    /\ DrawnWrap
    /\ SingleWord(DrawnValue)
    /\ DrawnInnerWidth = 4
    /\ LastDraw.status = "rejected"
    /\ TextLines = <<>>

\* the soft lines of a text for the drawn cell's font and inner width
SoftLines(text) ==
    getCanvasCellValueLines(text, TRUE, DrawnFont, DrawnInnerWidth, TOKEN_SPLITTER_REGEX)
DrawnHardLines == SplitAtNewlines(<<>>, DrawnValue)

RECURSIVE Spelled(_)
Spelled(lines) == IF lines = <<>> THEN <<>> ELSE lines[1] \o Spelled(Tail(lines))

RECURSIVE SoftLinesOfAll(_)
SoftLinesOfAll(hardLines) ==
    IF hardLines = <<>> THEN <<>>
    ELSE Get(SoftLines(hardLines[1])) \o SoftLinesOfAll(Tail(hardLines))

\* C26: getCanvasCellValueLines with wrapText = true terminates (returns its lines, and
\* the draw of the cell completes) for every value and every width, also for a width
\* smaller than the measured width of a single character.
C26_WrappingTerminates ==
    (Rendered /\ DrawnWrap) =>
        /\ ~IsNull(SoftLines(DrawnValue))
        /\ LastDraw.status = "fulfilled"

\* the same, for the widths larger than the width of a character
C26_WrappingTerminatesWhereACharacterFits ==
    (Rendered /\ DrawnWrap /\ measureTextWidth(DrawnFont, <<"x">>) < DrawnInnerWidth) =>
        /\ ~IsNull(SoftLines(DrawnValue))
        /\ LastDraw.status = "fulfilled"

\* the wrapped value of a blank and a word in the column of inner width 4 never returned
C26_NeverReturns ==
    /\ Rendered
    /\ DrawnWrap
    /\ DrawnValue = <<" ", "x">>
    /\ DrawnInnerWidth = 4
    /\ IsNull(SoftLines(DrawnValue))
    /\ LastDraw.status = "rejected"

\* C27: whenever getCanvasCellValueLines returns with wrapText = true, the soft lines
\* of each hard line, concatenated, are exactly that hard line, and the lines returned
\* (and drawn) are the soft lines of the hard lines in the order of the hard lines: no
\* character is lost, duplicated or reordered.
C27_WrappingKeepsEveryCharacter ==
    (Rendered /\ DrawnWrap /\ ~IsNull(SoftLines(DrawnValue))) =>
        /\ \A h \in 1 .. Len(DrawnHardLines) :
              /\ ~IsNull(SoftLines(DrawnHardLines[h]))
              /\ Spelled(Get(SoftLines(DrawnHardLines[h]))) = DrawnHardLines[h]
        /\ Get(SoftLines(DrawnValue)) = SoftLinesOfAll(DrawnHardLines)
        /\ [i \in 1 .. Len(TextLines) |-> TextLines[i].line] = Get(SoftLines(DrawnValue))

\* "x " and "x" on two hard lines in the column of inner width 16: drawn as x, blank
\* and x
C27_Witness ==
    /\ Rendered
    /\ DrawnWrap
    /\ DrawnValue = <<"x", " ", NEWLINE, "x">>
    /\ DrawnInnerWidth = 16
    /\ Len(TextLines) = 3
    /\ TextLines[2].line = <<" ">>

\* C28: with wrapText = true and a width that every single character of the value
\* fits, every soft line returned (and drawn) measures strictly less than the width,
\* whatever the number of tokens of the value.
C28_SoftLinesFitTheWidth ==
    (/\ Rendered
     /\ DrawnWrap
     /\ \A i \in 1 .. Len(DrawnValue) :
           measureTextWidth(DrawnFont, <<DrawnValue[i]>>) < DrawnInnerWidth)
        => /\ ~IsNull(SoftLines(DrawnValue))
           /\ \A i \in 1 .. Len(Get(SoftLines(DrawnValue))) :
                 measureTextWidth(DrawnFont, Get(SoftLines(DrawnValue))[i]) < DrawnInnerWidth
           /\ \A i \in 1 .. Len(TextLines) :
                 measureTextWidth(DrawnFont, TextLines[i].line) < DrawnInnerWidth

\* the same, for the values of one token
C28_SoftLinesOfOneTokenFit ==
    (/\ Rendered
     /\ DrawnWrap
     /\ Len(TokensFrom(<<>>, DrawnValue)) = 1
     /\ NEWLINE \notin {DrawnValue[i] : i \in 1 .. Len(DrawnValue)}
     /\ measureTextWidth(DrawnFont, <<"x">>) < DrawnInnerWidth)
        => /\ ~IsNull(SoftLines(DrawnValue))
           /\ \A i \in 1 .. Len(TextLines) :
                 measureTextWidth(DrawnFont, TextLines[i].line) < DrawnInnerWidth

\* "x xx" in the column of inner width 16: the second token is drawn whole, 20 wide
C28_WideLine ==
    /\ Rendered
    /\ DrawnWrap
    /\ DrawnValue = <<"x", " ", "x", "x">>
    /\ DrawnInnerWidth = 16
    /\ Len(TextLines) = 3
    /\ TextLines[3].line = <<"x", "x">>

(***************************************************************************)
(* Silent skips: a sheet of the cells A1 and B1 with at most one malformed *)
(* merge reference and with images that are sound (a png, as buffer or as  *)
(* base64 text, over cell A1) or cannot be resolved; the render may follow *)
(* one for which the workbook had no worksheet.                            *)
(***************************************************************************)
SkipKinds ==
    {"buffer", "base64", "notBase64", "unknown", "badRef", "noRect", "noAnchor",
     "missing", "noData"}
SoundKinds == {"buffer", "base64"}

\* "A1:b1" and "A0:B1", neither of which is a reference
BadMerges == {<<"A", "1", ":", "b", "1">>, <<"A", "0", ":", "B", "1">>}
SkipMergeLists == {<<>>} \cup {<<ref>> : ref \in BadMerges}

SkipRange(kind) ==
    CASE kind = "badRef" -> [string |-> Some(<<"a", "1">>)]
      [] kind = "noRect" -> [string |-> Some(RefOf(3, 3))]
      [] kind = "noAnchor" -> [string |-> Null, tl |-> Null, br |-> Null, ext |-> Null]
      [] OTHER -> [string |-> Some(RefOf(1, 1))]

\* the i-th image: its id is the text of i - 1, or "9" where the workbook has no image
SkipImage(i, kind) ==
    [imageId |-> [isString |-> TRUE, value |-> <<Digits[IF kind = "missing" THEN 10 ELSE i]>>],
     range |-> SkipRange(kind)]

SkipMedia(kind) ==
    IF kind = "noData" THEN [base64 |-> Null, buffer |-> Null]
    ELSE IF kind \in {"base64", "notBase64", "unknown"} THEN MediaOf(kind)
    ELSE MediaOf("buffer")

SkipKindLists == UNION {[1 .. n -> SkipKinds] : n \in 0 .. MaxImages}

SkipSheet(kinds, merges) ==
    WorksheetOf(ColumnsOf(<<"default", "sized">>), Some(RowsOf(<<"default">>)),
                CellsOf(2, 1, [a \in (1 .. 2) \X (1 .. 1) |-> TextOf(1)], {}, <<>>),
                Some(1), merges,
                [i \in 1 .. Len(kinds) |-> SkipImage(i, kinds[i])],
                [i \in 1 .. Len(kinds) |-> SkipMedia(kinds[i])])

\* the workbook has no worksheet for the sheet selector
RenderMissing ==
    /\ renders = <<>>
    /\ ExcelCanvasEffect(Null, ModelOptions, Null)

RenderSkip ==
    /\ draws = <<>>
    /\ \E kinds \in SkipKindLists, merges \in SkipMergeLists :
          ExcelCanvasEffect(Some(SkipSheet(kinds, merges)), ModelOptions, Null)

NextSkip == RenderMissing \/ RenderSkip \/ Fetch \/ Decode \/ Resume

SpecSkip == Init /\ [][NextSkip]_vars

\* a sound image of the sheet: a reference to cell A1, an image entry, png bytes
IsSound(worksheet, i) ==
    /\ worksheet.images[i].range.string = Some(RefOf(1, 1))
    /\ worksheet.images[i].imageId.value = <<Digits[i]>>
    /\ \/ /\ ~IsNull(worksheet.workbook.media[i].buffer)
          /\ Get(worksheet.workbook.media[i].buffer).bytes = PngBytes
       \/ /\ ~IsNull(worksheet.workbook.media[i].base64)
          /\ ~IsNull(Get(worksheet.workbook.media[i].base64).buffer)
          /\ Get(Get(worksheet.workbook.media[i].base64).buffer).bytes = PngBytes
SoundImages(worksheet) == {i \in 1 .. Len(worksheet.images) : IsSound(worksheet, i)}

ImagePaints == SelectSeq(events, LAMBDA e : e.op = "drawImage")
AllTasksDone(draw) == \A i \in 1 .. Len(draw.tasks) : draw.tasks[i].state = "done"

\* C15: items that cannot be resolved (a malformed merge or image reference, an image
\* whose range or anchors give no rect, an image id without image entry, an entry
\* without data, bytes of unknown type, text that is not base64, a missing worksheet)
\* are dropped without aborting the draw: the draw never fails, both cells are painted
\* once, a bitmap is requested only for the sound images, and once the image tasks are
\* done the draw is fulfilled and every sound image was painted once, over cell A1.
C15_UnresolvableItemsAreDropped ==
    \A d \in 1 .. Len(draws) :
        /\ draws[d].status # "rejected"
        /\ Len(CellPaints) = 2
        /\ PaintedCell(1).source.col = 1 /\ PaintedCell(1).x = 0 /\ PaintedCell(1).width = 12
        /\ PaintedCell(2).source.col = 2 /\ PaintedCell(2).x = 12 /\ PaintedCell(2).width = 24
        /\ Len(draws[d].tasks) <= Len(draws[d].worksheet.images)
        /\ \A i \in 1 .. Len(draws[d].tasks) :
              draws[d].tasks[i].state \in {"decoding", "bitmap"}
                  => TaskBuffer(draws[d].tasks[i]).bytes = PngBytes
        /\ Len(ImagePaints) <= Cardinality(SoundImages(draws[d].worksheet))
        /\ \A k \in 1 .. Len(ImagePaints) :
              /\ ImagePaints[k].x = 0 /\ ImagePaints[k].y = 0
              /\ ImagePaints[k].width = 12 /\ ImagePaints[k].height = 30
        /\ AllTasksDone(draws[d]) =>
              /\ draws[d].status = "fulfilled"
              /\ Len(ImagePaints) = Cardinality(SoundImages(draws[d].worksheet))

\* after a render without worksheet, a sheet with a malformed merge reference, an image
\* of unknown bytes and a sound image was drawn: the sound image is painted
C15_Witness ==
    /\ Len(renders) = 2
    /\ renders[1].draw = 0
    /\ draws[1].worksheet.model.merges # <<>>
    /\ Len(draws[1].worksheet.images) = 2
    /\ Cardinality(SoundImages(draws[1].worksheet)) = 1
    /\ Len(draws[1].tasks) = 2
    /\ draws[1].status = "fulfilled"
    /\ Len(ImagePaints) = 1

(***************************************************************************)
(* Worksheets without rows: two renders on the same canvas, each of a      *)
(* sheet of one cell with up to MaxImages png images over A1, whose row    *)
(* fetch yields its row or nothing.                                        *)
(***************************************************************************)
RowFetches == {"rows", "nothing"}

NoRowsImageSheet(n, fetch) ==
    WorksheetOf(ColumnsOf(<<"sized">>),
                IF fetch = "rows" THEN Some(RowsOf(<<"sized">>)) ELSE Null,
                CellsOf(1, 1, [a \in (1 .. 1) \X (1 .. 1) |-> TextOf(1)], {}, <<>>),
                Some(1), <<>>,
                [i \in 1 .. n |-> SheetImageOf(i)],
                [i \in 1 .. n |-> MediaOf("buffer")])

RenderNoRows ==
    /\ Len(renders) <= 1
    /\ \E n \in 0 .. MaxImages, fetch \in RowFetches :
          ExcelCanvasEffect(Some(NoRowsImageSheet(n, fetch)), ModelOptions, Null)

NextNoRows == RenderNoRows \/ Decode \/ Resume

SpecNoRows == Init /\ [][NextNoRows]_vars

\* the step is a render of a worksheet whose row fetch yields nothing
RendersNoRows ==
    /\ Len(renders') = Len(renders) + 1
    /\ IsNull(Get(renders'[Len(renders')].worksheet).rows)

\* C16: a draw of a worksheet whose row fetch yields nothing is a no-op: the step
\* leaves canvas.width and canvas.height as they were, paints nothing (no event is
\* added) and launches no image task; and no paint is ever made for such a draw.
C16_NoRowsDrawIsNoOp ==
    /\ [][RendersNoRows =>
            /\ canvas'.width = canvas.width
            /\ canvas'.height = canvas.height
            /\ events' = events
            /\ draws'[renders'[Len(renders')].draw].tasks = <<>>]_vars
    /\ [](\A d \in 1 .. Len(draws) :
            IsNull(draws[d].worksheet.rows) =>
                /\ draws[d].tasks = <<>>
                /\ \A k \in 1 .. Len(events) : events[k].draw # d)

\* a sheet with rows was drawn at 24 x 40, then a sheet with two images and no rows
C16_Witness ==
    /\ Len(renders) = 2
    /\ ~IsNull(draws[1].worksheet.rows)
    /\ IsNull(draws[2].worksheet.rows)
    /\ Len(draws[2].worksheet.images) = 2
    /\ canvas.width = 24 /\ canvas.height = 40
    /\ events # <<>>

(***************************************************************************)
(* Column letters: a sheet of one cell whose one merge reference is L1,    *)
(* for every string L of 1 to 3 upper-case letters.  The resolver indexes  *)
(* the range under the column number the parser gave.                      *)
(***************************************************************************)
MaxColLetters == 3

LetterStrings == UNION {[1 .. n -> Range(1, Len(UpperLetters))] : n \in 1 .. MaxColLetters}
LettersOf(indices) == [i \in 1 .. Len(indices) |-> UpperLetters[indices[i]]]

LetterSheet(letters) ==
    WorksheetOf(ColumnsOf(<<"default">>), Some(RowsOf(<<"default">>)), BlankCells(1, 1),
                Some(1), <<letters \o <<"1">>>>, <<>>, <<>>)

RenderLetters ==
    /\ renders = <<>>
    /\ \E indices \in LetterStrings :
          ExcelCanvasEffect(Some(LetterSheet(LettersOf(indices))), ModelOptions, Null)

NextLetters == RenderLetters

SpecLetters == Init /\ [][NextLetters]_vars

\* the bijective base-26 number of a string of letters, and the letters of a number
LetterIndex(ch) == CHOOSE i \in 1 .. Len(UpperLetters) : UpperLetters[i] = ch
RECURSIVE Bijective26(_)
Bijective26(letters) ==
    IF letters = <<>> THEN 0
    ELSE Bijective26(SubSeq(letters, 1, Len(letters) - 1)) * 26
            + LetterIndex(letters[Len(letters)])
RECURSIVE LettersOfNumber(_)
LettersOfNumber(n) ==
    IF n <= 0 THEN <<>>
    ELSE Append(LettersOfNumber((n - 1) \div 26), UpperLetters[((n - 1) % 26) + 1])

\* the letters of the merge reference of the draw, and the column the resolver indexed
DrawnLetters == SubSeq(LastDraw.worksheet.model.merges[1], 1,
                       Len(LastDraw.worksheet.model.merges[1]) - 1)
IndexedNumbers == cellRangeNumbersList(Get(LastDraw.provider).resolver)

LetterExamples ==
    {<<<<"A">>, 1>>, <<<<"Z">>, 26>>, <<<<"A", "A">>, 27>>, <<<<"A", "Z">>, 52>>,
     <<<<"B", "A">>, 53>>, <<<<"Z", "Z">>, 702>>, <<<<"A", "A", "A">>, 703>>}

\* C17: for every string L of 1 to 3 letters A..Z, the reference L1 parses to the column
\* that is L's bijective base-26 number, the resolver indexes the range under that
\* column, the letters of that number are L again (so the mapping is injective), and
\* A, Z, AA, AZ, BA, ZZ, AAA give 1, 26, 27, 52, 53, 702, 703.
C17_LettersAreBijectiveBase26 ==
    Rendered =>
        /\ getCellNumbersFromCellRef(LastDraw.worksheet.model.merges[1])
              = Some([col |-> Bijective26(DrawnLetters), row |-> 1])
        /\ Len(IndexedNumbers) = 1
        /\ IndexedNumbers[1].start = [col |-> Bijective26(DrawnLetters), row |-> 1]
        /\ IndexedNumbers[1].end = IndexedNumbers[1].start
        /\ DOMAIN Get(LastDraw.provider).resolver.mergeIdMap = {Bijective26(DrawnLetters)}
        /\ LettersOfNumber(IndexedNumbers[1].start.col) = DrawnLetters
        /\ IndexedNumbers[1].start.col \in 1 .. 18278
        /\ \A example \in LetterExamples :
              DrawnLetters = example[1] => IndexedNumbers[1].start.col = example[2]

\* the reference ZZZ1 was indexed under column 18278
C17_Witness ==
    /\ Rendered
    /\ DrawnLetters = <<"Z", "Z", "Z">>
    /\ IndexedNumbers[1].start.col = 18278

(***************************************************************************)
(* Ranges: a sheet of one cell whose merge references are X:Y, Y:X, X and  *)
(* the range from the smaller to the larger corner of X and Y, for every   *)
(* pair of references X, Y of the columns Y, Z, AA, AB and rows 1, 9, 10.  *)
(***************************************************************************)
PairCols == {25, 26, 27, 28}
PairRows == {1, 9, 10}
PairCells == {[col |-> c, row |-> r] : c \in PairCols, r \in PairRows}

RECURSIVE DecimalOf(_)
DecimalOf(n) ==
    IF n < 10 THEN <<Digits[n + 1]>> ELSE Append(DecimalOf(n \div 10), Digits[(n % 10) + 1])

RefFor(cellNumbers) == LettersOfNumber(cellNumbers.col) \o DecimalOf(cellNumbers.row)
RangeRefFor(a, b) == RefFor(a) \o <<":">> \o RefFor(b)

Smaller(a, b) == IF a <= b THEN a ELSE b
Larger(a, b) == IF a <= b THEN b ELSE a
LowCorner(a, b) == [col |-> Smaller(a.col, b.col), row |-> Smaller(a.row, b.row)]
HighCorner(a, b) == [col |-> Larger(a.col, b.col), row |-> Larger(a.row, b.row)]

PairSheet(a, b) ==
    WorksheetOf(ColumnsOf(<<"default">>), Some(RowsOf(<<"default">>)), BlankCells(1, 1),
                Some(1),
                <<RangeRefFor(a, b), RangeRefFor(b, a), RefFor(a),
                  RangeRefFor(LowCorner(a, b), HighCorner(a, b))>>,
                <<>>, <<>>)

RenderPairs ==
    /\ renders = <<>>
    /\ \E a \in PairCells, b \in PairCells :
          ExcelCanvasEffect(Some(PairSheet(a, b)), ModelOptions, Null)

NextPairs == RenderPairs

SpecPairs == Init /\ [][NextPairs]_vars

\* the references X and Y of the draw, parsed on their own
DrawnX == Get(getCellNumbersFromCellRef(LastDraw.worksheet.model.merges[3]))
DrawnY ==
    Get(getCellNumbersFromCellRef(
            SubSeq(LastDraw.worksheet.model.merges[2], 1,
                   Len(LastDraw.worksheet.model.merges[2])
                       - Len(LastDraw.worksheet.model.merges[3]) - 1)))

\* C18: for valid references X and Y, "X:Y" parses to {start, end} with start the
\* componentwise minimum and end the componentwise maximum (so start.col <= end.col
\* and start.row <= end.row); "Y:X" gives the same; the range written from start to
\* end parses to itself; and the single reference "X" gives start = end = X.
C18_RangeIsNormalised ==
    Rendered =>
        /\ Len(IndexedNumbers) = 4
        /\ IndexedNumbers[1].start.col <= IndexedNumbers[1].end.col
        /\ IndexedNumbers[1].start.row <= IndexedNumbers[1].end.row
        /\ IndexedNumbers[1].start = LowCorner(DrawnX, DrawnY)
        /\ IndexedNumbers[1].end = HighCorner(DrawnX, DrawnY)
        /\ IndexedNumbers[2] = IndexedNumbers[1]
        /\ IndexedNumbers[4] = IndexedNumbers[1]
        /\ getCellRangeNumbersFromCellRangeRef(
              RangeRefFor(IndexedNumbers[1].start, IndexedNumbers[1].end))
                 = Some(IndexedNumbers[1])
        /\ IndexedNumbers[3] = [start |-> DrawnX, end |-> DrawnX]
        /\ DrawnX \in PairCells /\ DrawnY \in PairCells

\* "AA1:Y10" was parsed: its start is Y1 and its end is AA10, neither X nor Y
C18_Witness ==
    /\ Rendered
    /\ LastDraw.worksheet.model.merges[1] = <<"A", "A", "1", ":", "Y", "1", "0">>
    /\ IndexedNumbers[1] = [start |-> [col |-> 25, row |-> 1], end |-> [col |-> 27, row |-> 10]]
    /\ IndexedNumbers[3].start = [col |-> 27, row |-> 1]

(***************************************************************************)
(* Malformed references: a sheet of 2 x 2 cells whose one merge reference  *)
(* and whose one image range are the same text: a reference, a range, or   *)
(* a text that is neither, alone or as one side of a range.                *)
(***************************************************************************)
GoodRefs == {RefOf(1, 1), RefOf(2, 2)}

\* lower-case letters; more than three letters; row 0 or a leading zero; no row; no
\* column; extra characters before, between and behind; the empty text
BadRefs ==
    {<<"a", "1">>, <<"A", "b", "1">>, <<"b", "2">>,
     <<"A", "A", "A", "A", "1">>, <<"A", "B", "C", "D", "1", "2">>,
     <<"A", "0">>, <<"A", "0", "1">>, <<"B", "0", "0">>,
     <<"A">>, <<"A", "B">>, <<"1">>, <<"1", "2">>, <<>>,
     <<"A", "1", " ">>, <<" ", "A", "1">>, <<"A", " ", "1">>, <<"$", "A", "$", "1">>,
     <<"A", "1", "B">>, <<"1", "A">>, <<"A", ".", "1">>, <<"A", "1", "-", "B", "2">>,
     <<"A", "1", ":", "B", "2", ":", "A", "1">>}

WellFormedRefs == GoodRefs \cup {a \o <<":">> \o b : a \in GoodRefs, b \in GoodRefs}
MalformedRefs ==
    BadRefs \cup {a \o <<":">> \o b : a \in GoodRefs, b \in BadRefs}
            \cup {a \o <<":">> \o b : a \in BadRefs, b \in GoodRefs}

RefSheet(ref) ==
    WorksheetOf(ColumnsOf(<<"default", "default">>), Some(RowsOf(<<"default", "default">>)),
                BlankCells(2, 2), Some(1), <<ref>>, <<RangeImageOf(ref)>>,
                <<MediaOf("buffer")>>)

RenderRef ==
    /\ renders = <<>>
    /\ \E ref \in WellFormedRefs \cup MalformedRefs :
          ExcelCanvasEffect(Some(RefSheet(ref)), ModelOptions, Null)

NextRef == RenderRef \/ Decode \/ Resume

SpecRef == Init /\ [][NextRef]_vars

DrawnRef == LastDraw.worksheet.model.merges[1]
DrawnResolver == Get(LastDraw.provider).resolver

\* C19: a text that is no reference and no range (lower-case letters, more than three
\* letters, row 0 or a leading zero, a missing row, extra characters) parses to null,
\* as a merge reference it adds nothing to the merge index, and as an image range it
\* gives no rect, so that no image task is launched and no image is painted; the draw
\* itself is fulfilled with its four cells painted.  A reference or range adds one
\* entry to the index and launches the image.
C19_MalformedReferenceIsSkipped ==
    Rendered =>
        /\ DrawnRef \in MalformedRefs =>
              /\ getCellRangeNumbersFromCellRangeRef(DrawnRef) = Null
              /\ DrawnResolver.rangeNumbersMap = <<>>
              /\ DOMAIN DrawnResolver.mergeIdMap = {}
              /\ getRectFromCellRangeRef(DrawnRef, Get(LastDraw.provider)) = Null
              /\ LastDraw.tasks = <<>>
              /\ ImagePaints = <<>>
              /\ LastDraw.status = "fulfilled"
              /\ Len(CellPaints) = 4
        /\ DrawnRef \notin MalformedRefs =>
              /\ Len(DrawnResolver.rangeNumbersMap) = 1
              /\ Len(LastDraw.tasks) = 1

\* the sheet whose merge reference and image range are "A1:b2" was drawn
C19_Witness ==
    /\ Rendered
    /\ DrawnRef = <<"A", "1", ":", "b", "2">>
    /\ DrawnRef \in MalformedRefs
    /\ LastDraw.status = "fulfilled"
    /\ DrawnResolver.rangeNumbersMap = <<>>

(***************************************************************************)
(* Images anchored at their top-left corner: a sheet of 3 x 2 cells with   *)
(* default, sized and hidden bands, no merged range, and one png image     *)
(* whose range has a tl anchor and an ext, drawn at 144 or 216 dpi (2 or 3 *)
(* pixels per point).  Offsets are whole points and ext sizes multiples of *)
(* 4, so that every pixel value is integral.                               *)
(***************************************************************************)
AnchorColumnLayouts == [1 .. 3 -> {"default", "sized", "hidden"}]
AnchorRowLayouts == [1 .. 2 -> {"default", "hidden"}]
AnchorDpis == {144, 216}
AnchorOffsets == {0, 3 * EMU_PER_POINT}
AnchorExts == {[width |-> Some(96), height |-> Some(96)], [width |-> Some(4), height |-> Some(8)]}

\* an anchor read from the file (native fields) or set through the API (col, row)
TopLeftAnchor(col, row, colOff, rowOff, native) ==
    [nativeCol |-> IF native THEN Some(col) ELSE Null,
     nativeRow |-> IF native THEN Some(row) ELSE Null,
     col |-> IF native THEN Null ELSE Some(col),
     row |-> IF native THEN Null ELSE Some(row),
     nativeColOff |-> IF colOff = 0 THEN Null ELSE Some(colOff),
     nativeRowOff |-> Some(rowOff)]

AnchoredImage(anchor, ext) ==
    [imageId |-> [isString |-> FALSE, value |-> 0],
     range |-> [string |-> Null, tl |-> Some(anchor), br |-> Null, ext |-> Some(ext)]]

AnchorSheet(ck, rk, anchor, ext) ==
    WorksheetOf(ColumnsOf(ck), Some(RowsOf(rk)), BlankCells(3, 2), Some(1), <<>>,
                <<AnchoredImage(anchor, ext)>>, <<MediaOf("buffer")>>)

RenderAnchor ==
    /\ renders = <<>>
    /\ \E ck \in AnchorColumnLayouts, rk \in AnchorRowLayouts, dpi \in AnchorDpis,
          col \in 0 .. 2, row \in 0 .. 1, off \in AnchorOffsets, ext \in AnchorExts,
          native \in BOOLEAN :
          ExcelCanvasEffect(Some(AnchorSheet(ck, rk, TopLeftAnchor(col, row, off, off, native),
                                             ext)),
                            [ModelOptions EXCEPT !.dpi = dpi], Null)

NextAnchor == RenderAnchor \/ Decode \/ Resume

SpecAnchor == Init /\ [][NextAnchor]_vars

DrawnRange == LastDraw.worksheet.images[1].range
DrawnAnchor == Get(DrawnRange.tl)
AnchorCol == IF IsNull(DrawnAnchor.nativeCol) THEN Get(DrawnAnchor.col) ELSE Get(DrawnAnchor.nativeCol)
AnchorRow == IF IsNull(DrawnAnchor.nativeRow) THEN Get(DrawnAnchor.row) ELSE Get(DrawnAnchor.nativeRow)
AnchorColOff == IF IsNull(DrawnAnchor.nativeColOff) THEN 0 ELSE Get(DrawnAnchor.nativeColOff)
AnchorRowOff == IF IsNull(DrawnAnchor.nativeRowOff) THEN 0 ELSE Get(DrawnAnchor.nativeRowOff)
DrawnPixelPerPoint == LastDraw.params.scale.pixelPerPoint

\* the cell (col + 1, row + 1) is a visible cell of the sheet
AnchoredCellVisible ==
    /\ AnchorCol + 1 \in 1 .. Len(LastDraw.worksheet.columns)
    /\ AnchorRow + 1 \in 1 .. Len(LastDraw.worksheet.rows[1])
    /\ ~Invisible(LastDraw.worksheet.columns[AnchorCol + 1])
    /\ ~Invisible(LastDraw.worksheet.rows[1][AnchorRow + 1])

Red == Some([argb |-> Some([a |-> "FF", rgb |-> "FF0000"])])
Blue == Some([argb |-> Some([a |-> "80", rgb |-> "0000FF"])])

SideBorders ==
    {Null,
     Some([style |-> Some("thin"), color |-> Red]),
     Some([style |-> Some("thick"), color |-> Blue]),
     Some([style |-> Some("dashed"), color |-> Null]),
     Some([style |-> Null, color |-> Red])}

BorderCell(left, top, right, bottom) ==
    [CellOf(1, 1, <<>>, FALSE, FALSE) EXCEPT
        !.border = Some([left |-> left, top |-> top, right |-> right, bottom |-> bottom])]

BorderSheet(left, top, right, bottom) ==
    WorksheetOf(ColumnsOf(<<"default">>), Some(RowsOf(<<"default">>)),
                [a \in {<<1, 1>>} |-> BorderCell(left, top, right, bottom)],
                Some(1), <<>>, <<>>, <<>>)

RenderBorder ==
    /\ renders = <<>>
    /\ \E left \in SideBorders, top \in SideBorders, right \in SideBorders,
          bottom \in SideBorders :
          ExcelCanvasEffect(Some(BorderSheet(left, top, right, bottom)), ModelOptions, Null)

NextBorder == RenderBorder

SpecBorder == Init /\ [][NextBorder]_vars

Strokes == SelectSeq(events, LAMBDA e : e.op = "stroke")
StrokesOf(side) == {i \in 1 .. Len(Strokes) : Strokes[i].side = side}
SideNames == {"left", "top", "right", "bottom"}

\* the border of a side as the worksheet gives it
DrawnSide(side) == Get(LastDraw.worksheet.cells[<<1, 1>>].border)[side]
HasStyle(side) == ~IsNull(DrawnSide(side)) /\ ~IsNull(Get(DrawnSide(side)).style)

\* colour, width (tenths of a pixel, at 2 pixels per point) and dash of the styles used
ExpectedColor(side) ==
    IF IsNull(Get(DrawnSide(side)).color) THEN <<"lightgray">>
    ELSE IF Get(DrawnSide(side)).color = Red THEN <<"#", "FF0000", "FF">>
    ELSE <<"#", "0000FF", "80">>
ExpectedWidth(side) ==
    CASE Get(DrawnSide(side)).style = Some("thin") -> 16
      [] Get(DrawnSide(side)).style = Some("thick") -> 40
      [] Get(DrawnSide(side)).style = Some("dashed") -> 16
ExpectedSegments(side) ==
    IF Get(DrawnSide(side)).style = Some("dashed") THEN <<8>> ELSE <<>>

\* the edge of the cell (0, 0, 12, 30) a side lies on
OnEdge(stroke, side) ==
    CASE side = "left" -> stroke.x1 = 0 /\ stroke.x2 = 0 /\ stroke.y1 = 0 /\ stroke.y2 = 30
      [] side = "top" -> stroke.x1 = 0 /\ stroke.x2 = 12 /\ stroke.y1 = 0 /\ stroke.y2 = 0
      [] side = "right" -> stroke.x1 = 12 /\ stroke.x2 = 12 /\ stroke.y1 = 0 /\ stroke.y2 = 30
      [] side = "bottom" -> stroke.x1 = 0 /\ stroke.x2 = 12 /\ stroke.y1 = 30 /\ stroke.y2 = 30

\* C21: each of the four sides whose style is not "none" is stroked once, along its
\* edge, with that side's own colour, width and dash segments, also when the sides of
\* the cell differ; a side without style is not stroked.
C21_EachSideStrokedWithItsOwnStyle ==
    Rendered =>
        \A side \in SideNames :
            /\ ~HasStyle(side) => StrokesOf(side) = {}
            /\ HasStyle(side) =>
                  /\ Cardinality(StrokesOf(side)) = 1
                  /\ \A i \in StrokesOf(side) :
                        /\ OnEdge(Strokes[i], side)
                        /\ Strokes[i].color = ExpectedColor(side)
                        /\ Strokes[i].width = ExpectedWidth(side)
                        /\ Strokes[i].segments = ExpectedSegments(side)

\* the same for the cells whose styled sides are all alike
C21_AlikeSidesStrokedWithTheirStyle ==
    (Rendered /\ \A s \in SideNames, t \in SideNames :
                    (HasStyle(s) /\ HasStyle(t)) => DrawnSide(s) = DrawnSide(t))
        => C21_EachSideStrokedWithItsOwnStyle

\* a cell with a thin red left border and a thick blue bottom border was drawn: the
\* left edge was stroked 40 wide in blue
C21_Mixed ==
    /\ Rendered
    /\ HasStyle("left") /\ Get(DrawnSide("left")).style = Some("thin")
    /\ HasStyle("bottom") /\ Get(DrawnSide("bottom")).style = Some("thick")
    /\ \E i \in StrokesOf("left") :
          Strokes[i].width = 40 /\ Strokes[i].color = <<"#", "0000FF", "80">>

(***************************************************************************)
(* Text placement: a sheet of the one cell A1 in a default or sized column *)
(* and row, with a value of one to three hard lines (or none), every       *)
(* horizontal and vertical alignment of the cell (absent, one the canvas   *)
(* knows, one it does not know) and a fallback alignment of left or end.   *)
(***************************************************************************)
AlignHorizontals == {Null, Some("left"), Some("center"), Some("right"), Some("start"),
                     Some("end"), Some("fill")}
AlignVerticals == {Null, Some("top"), Some("middle"), Some("bottom"), Some("justify")}
AlignFallbacks == {"left", "end"}
AlignValues ==
    {<<>>, <<"x">>, <<"x", NEWLINE, "x", "x">>, <<"x", NEWLINE, "x", "x", NEWLINE, "x">>}
AlignKinds == {"default", "sized"}

AlignCell(value, horizontal, vertical) ==
    [CellOf(1, 1, value, FALSE, FALSE) EXCEPT
        !.alignment = Some([horizontal |-> horizontal, vertical |-> vertical,
                            wrapText |-> Null, shrinkToFit |-> Null])]

AlignSheet(ck, rk, value, horizontal, vertical) ==
    WorksheetOf(ColumnsOf(<<ck>>), Some(RowsOf(<<rk>>)),
                [a \in {<<1, 1>>} |-> AlignCell(value, horizontal, vertical)],
                Some(1), <<>>, <<>>, <<>>)

RenderAlign ==
    /\ renders = <<>>
    /\ \E ck \in AlignKinds, rk \in AlignKinds, value \in AlignValues,
          horizontal \in AlignHorizontals, vertical \in AlignVerticals,
          fallback \in AlignFallbacks :
          ExcelCanvasEffect(Some(AlignSheet(ck, rk, value, horizontal, vertical)),
                            MergeOptions(ModelOptions,
                                         [textFallbackAlignmentHorizontal |-> fallback]),
                            Null)

NextAlign == RenderAlign

SpecAlign == Init /\ [][NextAlign]_vars

\* the alignment of the drawn cell as the worksheet and the options give it
DrawnAlignment == Get(LastDraw.worksheet.cells[<<1, 1>>].alignment)
EffectiveHorizontal ==
    IF DrawnAlignment.horizontal \in {Some("left"), Some("center"), Some("right"),
                                      Some("start"), Some("end")}
    THEN Get(DrawnAlignment.horizontal)
    ELSE LastDraw.params.text.fallbackAlignment.horizontal
EffectiveVertical ==
    IF DrawnAlignment.vertical \in {Some("top"), Some("middle"), Some("bottom")}
    THEN Get(DrawnAlignment.vertical)
    ELSE "bottom"

\* the cell rect inset by the padding of 2 points, and the line height of 10 points
DrawnPadding == 2 * LastDraw.params.scale.pixelPerPoint
DrawnLineHeight == 10 * LastDraw.params.scale.pixelPerPoint
Inner ==
    [x |-> DrawnPadding, y |-> DrawnPadding,
     width |-> ColumnPixels(LastDraw.worksheet, LastDraw.params,
                            LastDraw.worksheet.columns[1]) - 2 * DrawnPadding,
     height |-> RowPixels(LastDraw.worksheet, LastDraw.params,
                          LastDraw.worksheet.rows[1][1]) - 2 * DrawnPadding]
HardLines == SplitAtNewlines(<<>>, Get(LastDraw.worksheet.cells[<<1, 1>>].text))

\* C22: the x of every line of the cell's text is inner.x for horizontal alignment left
\* or start, inner.x + inner.width / 2 for center and inner.x + inner.width for right
\* or end, inner being the cell rect inset by cellPixelPadding.
C22_TextXFollowsHorizontalAlignment ==
    Rendered =>
        /\ TextLines # <<>>
        /\ \A i \in 1 .. Len(TextLines) :
              TextLines[i].x =
                  CASE EffectiveHorizontal \in {"left", "start"} -> Inner.x
                    [] EffectiveHorizontal = "center" -> Inner.x + Inner.width \div 2
                    [] EffectiveHorizontal \in {"right", "end"} -> Inner.x + Inner.width

\* the same for the alignments other than end
C22_TextXFollowsAlignmentButEnd ==
    (Rendered /\ EffectiveHorizontal # "end") => C22_TextXFollowsHorizontalAlignment

\* a cell aligned to the end in a sized column was drawn with its text at inner.x
C22_EndAtInnerX ==
    /\ Rendered
    /\ DrawnAlignment.horizontal = Some("end")
    /\ Inner.width = 16
    /\ TextLines # <<>>
    /\ TextLines[1].x = 4

\* C23: with vertical alignment bottom the lines of the value are drawn one per hard
\* line, the first at inner.y + inner.height - (lineCount - 1) * lineHeight and each
\* next one lineHeight lower, so that the last line is at cellBottom - cellPixelPadding
\* for every line count; a single line aligned left is at x = cellLeft + padding.
C23_BottomAlignedLines ==
    (Rendered /\ EffectiveVertical = "bottom") =>
        /\ Len(TextLines) = Len(HardLines)
        /\ \A i \in 1 .. Len(TextLines) : TextLines[i].line = HardLines[i]
        /\ TextLines[1].y = Inner.y + Inner.height - (Len(HardLines) - 1) * DrawnLineHeight
        /\ \A i \in 1 .. Len(TextLines) - 1 :
              TextLines[i + 1].y = TextLines[i].y + DrawnLineHeight
        /\ TextLines[Len(TextLines)].y
              = RowPixels(LastDraw.worksheet, LastDraw.params, LastDraw.worksheet.rows[1][1])
                    - DrawnPadding
        /\ (Len(TextLines) = 1 /\ EffectiveHorizontal = "left") =>
              TextLines[1].x = DrawnPadding

\* three lines were drawn bottom-aligned in a sized row: at y 40 - 4 - 40, - 20 and - 0
C23_Witness ==
    /\ Rendered
    /\ EffectiveVertical = "bottom"
    /\ Len(TextLines) = 3
    /\ TextLines[1].y = -4 /\ TextLines[2].y = 16 /\ TextLines[3].y = 36

(***************************************************************************)
(* Images anchored at both corners: the sheet of 3 x 2 cells with default, *)
(* sized and hidden bands and no merged range, and one png image whose     *)
(* range has a tl and a br anchor inside or outside the sheet, each with   *)
(* its own offset of whole points.                                         *)
(***************************************************************************)
CornerOffsets == {0, 3 * EMU_PER_POINT, 5 * EMU_PER_POINT}

CorneredImage(tl, br) ==
    [imageId |-> [isString |-> FALSE, value |-> 0],
     range |-> [string |-> Null, tl |-> Some(tl), br |-> Some(br), ext |-> Null]]

CornerSheet(ck, rk, tl, br) ==
    WorksheetOf(ColumnsOf(ck), Some(RowsOf(rk)), BlankCells(3, 2), Some(1), <<>>,
                <<CorneredImage(tl, br)>>, <<MediaOf("buffer")>>)

RenderCorners ==
    /\ renders = <<>>
    /\ \E ck \in AnchorColumnLayouts, rk \in AnchorRowLayouts,
          tlCol \in 0 .. 2, tlRow \in 0 .. 1, brCol \in 0 .. 3, brRow \in 1 .. 2,
          tlOff \in CornerOffsets \ {5 * EMU_PER_POINT}, brOff \in CornerOffsets \ {0} :
          ExcelCanvasEffect(Some(CornerSheet(ck, rk,
                                             TopLeftAnchor(tlCol, tlRow, tlOff, tlOff, TRUE),
                                             TopLeftAnchor(brCol, brRow, 0, brOff, FALSE))),
                            ModelOptions, Null)

NextCorners == RenderCorners \/ Decode \/ Resume

SpecCorners == Init /\ [][NextCorners]_vars

DrawnBr == Get(DrawnRange.br)
BrCol == IF IsNull(DrawnBr.nativeCol) THEN Get(DrawnBr.col) ELSE Get(DrawnBr.nativeCol)
BrRow == IF IsNull(DrawnBr.nativeRow) THEN Get(DrawnBr.row) ELSE Get(DrawnBr.nativeRow)
BrColOff == IF IsNull(DrawnBr.nativeColOff) THEN 0 ELSE Get(DrawnBr.nativeColOff)
BrRowOff == IF IsNull(DrawnBr.nativeRowOff) THEN 0 ELSE Get(DrawnBr.nativeRowOff)

\* the cell (br.col, br.row) is a visible cell of the sheet
BrCellVisible ==
    /\ BrCol \in 1 .. Len(LastDraw.worksheet.columns)
    /\ BrRow \in 1 .. Len(LastDraw.worksheet.rows[1])
    /\ ~Invisible(LastDraw.worksheet.columns[BrCol])
    /\ ~Invisible(LastDraw.worksheet.rows[1][BrRow])

JpegBytes == <<255, 216, 255, 224>>
Gif87Bytes == <<71, 73, 70, 56, 55, 97, 1, 0>>
Gif89Bytes == <<71, 73, 70, 56, 57, 97, 1, 0>>
BmpBytes == <<66, 77, 70, 0>>
WebpBytes == <<82, 73, 70, 70, 36, 0, 0, 0, 87, 69, 66, 80, 86, 80>>
WaveBytes == <<82, 73, 70, 70, 36, 0, 0, 0, 87, 65, 86, 69>>

MagicBuffers ==
    {PngBytes, SubSeq(PngBytes, 1, 7), JpegBytes, SubSeq(JpegBytes, 1, 2), Gif87Bytes,
     Gif89Bytes, <<71, 73, 70, 56, 56, 97>>, BmpBytes, WebpBytes, SubSeq(WebpBytes, 1, 8),
     WaveBytes, <<>>, <<0, 0>>}

MagicMedia(bytes, asBase64) ==
    IF asBase64
    THEN [base64 |-> Some([buffer |-> Some([bytes |-> bytes, decodes |-> TRUE])]),
          buffer |-> Null]
    ELSE [base64 |-> Null, buffer |-> Some([bytes |-> bytes, decodes |-> TRUE])]

MagicSheet(media) ==
    WorksheetOf(ColumnsOf(<<"default">>), Some(RowsOf(<<"default">>)), BlankCells(1, 1),
                Some(1), <<>>, [i \in 1 .. Len(media) |-> SheetImageOf(i)], media)

RenderMagic ==
    /\ renders = <<>>
    /\ \E n \in 1 .. 2 :
          \E buffers \in [1 .. n -> MagicBuffers], asBase64 \in BOOLEAN :
              ExcelCanvasEffect(Some(MagicSheet([i \in 1 .. n |->
                                                    MagicMedia(buffers[i], asBase64)])),
                                ModelOptions, Null)

NextMagic == RenderMagic \/ Fetch \/ Decode \/ Resume

SpecMagic == Init /\ [][NextMagic]_vars

\* the bytes begin with the given ones
StartsWith(bytes, prefix) ==
    Len(bytes) >= Len(prefix) /\ SubSeq(bytes, 1, Len(prefix)) = prefix

\* the type the leading bytes of a buffer stand for
TypeOfSignature(bytes) ==
    CASE StartsWith(bytes, PngBytes) -> "png"
      [] StartsWith(bytes, <<255, 216, 255>>) -> "jpeg"
      [] StartsWith(bytes, <<71, 73, 70, 56, 55, 97>>) -> "gif"
      [] StartsWith(bytes, <<71, 73, 70, 56, 57, 97>>) -> "gif"
      [] StartsWith(bytes, <<66, 77>>) -> "bmp"
      [] StartsWith(bytes, <<82, 73, 70, 70>>) /\ Len(bytes) >= 12
             /\ SubSeq(bytes, 9, 12) = <<87, 69, 66, 80>> -> "webp"
      [] OTHER -> "unknown"

\* the buffer of the i-th image of the drawn sheet
DrawnBuffer(i) ==
    IF IsNull(LastDraw.worksheet.workbook.media[i].buffer)
    THEN Get(Get(LastDraw.worksheet.workbook.media[i].base64).buffer)
    ELSE Get(LastDraw.worksheet.workbook.media[i].buffer)

\* C25: determineImageType gives every buffer the type of its leading magic bytes: png
\* for the PNG signature, jpeg for FF D8 FF, gif for "GIF87a" or "GIF89a", bmp for "BM",
\* webp for "RIFF"????"WEBP" and unknown for a buffer with none of these, whose image is
\* skipped (never decoded nor painted) while the images of the other types are drawn.
C25_TypeOfLeadingMagicBytes ==
    Rendered =>
        \A i \in 1 .. Len(LastDraw.tasks) :
            /\ determineImageType(DrawnBuffer(i)) = TypeOfSignature(DrawnBuffer(i).bytes)
            /\ (TypeOfSignature(DrawnBuffer(i).bytes) = "unknown") =>
                  /\ LastDraw.tasks[i].bitmap = "none"
                  /\ LastDraw.tasks[i].state \in {"fetching", "done"}
            /\ (TypeOfSignature(DrawnBuffer(i).bytes) # "unknown"
                    /\ LastDraw.tasks[i].state = "done") =>
                  LastDraw.tasks[i].bitmap = "closed"

\* the same for the buffers that are not GIF images
C25_TypeOfLeadingBytesButGif ==
    Rendered =>
        \A i \in 1 .. Len(LastDraw.tasks) :
            TypeOfSignature(DrawnBuffer(i).bytes) # "gif" =>
                /\ determineImageType(DrawnBuffer(i)) = TypeOfSignature(DrawnBuffer(i).bytes)
                /\ (TypeOfSignature(DrawnBuffer(i).bytes) = "unknown") =>
                      /\ LastDraw.tasks[i].bitmap = "none"
                      /\ LastDraw.tasks[i].state \in {"fetching", "done"}
                /\ (TypeOfSignature(DrawnBuffer(i).bytes) # "unknown"
                        /\ LastDraw.tasks[i].state = "done") =>
                      LastDraw.tasks[i].bitmap = "closed"

\* a GIF89a buffer was drawn to the end without having been decoded or painted
C25_GifSkipped ==
    /\ Rendered
    /\ Len(LastDraw.tasks) = 1
    /\ DrawnBuffer(1).bytes = Gif89Bytes
    /\ LastDraw.tasks[1].state = "done"
    /\ LastDraw.tasks[1].bitmap = "none"
    /\ ImagePaints = <<>>

(***************************************************************************)
(* Coverage: a sheet of 3 x 2 blank cells with default, sized and hidden   *)
(* columns and rows and with no merged range, one, or two that share       *)
(* columns, or with a malformed merge reference (which flags no cell).     *)
(***************************************************************************)
CoverRange(c1, r1, c2, r2) ==
    [start |-> [col |-> c1, row |-> r1], end |-> [col |-> c2, row |-> r2]]

CoverMergeLists ==
    {<<>>, <<CoverRange(1, 1, 2, 1)>>, <<CoverRange(1, 1, 3, 1)>>, <<CoverRange(2, 1, 3, 1)>>,
     <<CoverRange(1, 1, 1, 2)>>, <<CoverRange(1, 1, 2, 2)>>, <<CoverRange(2, 1, 3, 2)>>,
     <<CoverRange(1, 1, 2, 1), CoverRange(1, 2, 2, 2)>>,
     <<CoverRange(2, 2, 3, 2), CoverRange(1, 1, 3, 1)>>}

CoverSheet(ck, rk, mergeList, badRefs) ==
    WorksheetOf(ColumnsOf(ck), Some(RowsOf(rk)),
                CellsOf(3, 2, [a \in (1 .. 3) \X (1 .. 2) |-> <<>>], {}, mergeList),
                Some(1), badRefs \o MergeRefs(mergeList), <<>>, <<>>)

RenderCover ==
    /\ renders = <<>>
    /\ \E ck \in AnchorColumnLayouts, rk \in AnchorRowLayouts, mergeList \in CoverMergeLists,
          badRefs \in SkipMergeLists :
          ExcelCanvasEffect(Some(CoverSheet(ck, rk, mergeList, badRefs)), ModelOptions, Null)

NextCover == RenderCover

SpecCover == Init /\ [][NextCover]_vars

\* the visible positions of the drawn sheet
VisiblePositions ==
    {a \in (1 .. Len(LastDraw.worksheet.columns)) \X (1 .. Len(LastDraw.worksheet.rows[1])) :
        /\ ~Invisible(LastDraw.worksheet.columns[a[1]])
        /\ ~Invisible(LastDraw.worksheet.rows[1][a[2]])}

\* the rect of a visible position
PositionRect(a) ==
    [x |-> ColumnSpan(LastDraw.worksheet, LastDraw.params, 1, a[1] - 1),
     y |-> RowSpan(LastDraw.worksheet, LastDraw.params, 1, a[2] - 1),
     width |-> ColumnPixels(LastDraw.worksheet, LastDraw.params,
                            LastDraw.worksheet.columns[a[1]]),
     height |-> RowPixels(LastDraw.worksheet, LastDraw.params,
                          LastDraw.worksheet.rows[1][a[2]])]

PaintRect(i) ==
    [x |-> PaintedCell(i).x, y |-> PaintedCell(i).y,
     width |-> PaintedCell(i).width, height |-> PaintedCell(i).height]

\* the paints whose rect contains the rect of the position
PaintsOver(a) ==
    {i \in 1 .. Len(CellPaints) :
        /\ PaintRect(i).x <= PositionRect(a).x
        /\ PaintRect(i).y <= PositionRect(a).y
        /\ PositionRect(a).x + PositionRect(a).width <= PaintRect(i).x + PaintRect(i).width
        /\ PositionRect(a).y + PositionRect(a).height <= PaintRect(i).y + PaintRect(i).height}

CoveredOnce(a) ==
    /\ Cardinality(PaintsOver(a)) = 1
    /\ \A i \in PaintsOver(a) :
          IF LastDraw.worksheet.cells[a].isMerged
          THEN PaintedCell(i).source.isMerged
          ELSE /\ PaintRect(i) = PositionRect(a)
               /\ PaintedCell(i).source = [col |-> a[1], row |-> a[2], isMerged |-> FALSE]

\* the merged ranges of the drawn sheet that have a reference, and whether the bands
\* of both their corners are visible
DrawnMerges ==
    {getCellRangeNumbersFromCellRangeRef(LastDraw.worksheet.model.merges[k]) :
        k \in 1 .. Len(LastDraw.worksheet.model.merges)} \ {Null}
CornersVisible(m) ==
    /\ <<Get(m).start.col, Get(m).start.row>> \in VisiblePositions
    /\ <<Get(m).end.col, Get(m).end.row>> \in VisiblePositions

\* C29: in one draw every visible (column, row) position of the sheet is covered by
\* exactly one painted canvas cell: a cell that is not merged by the paint of its own
\* rect, a position inside a merged range by the single paint of the range; also when
\* a corner of the range is in a hidden band, when a merge reference is malformed and
\* when merges share columns.
C29_EveryVisiblePositionCoveredOnce ==
    Rendered => \A a \in VisiblePositions : CoveredOnce(a)

\* the same, for the sheets whose merged ranges have both corners in visible bands
C29_CoveredOnceWithVisibleCorners ==
    (Rendered /\ \A m \in DrawnMerges : CornersVisible(m)) =>
        \A a \in VisiblePositions : CoveredOnce(a)

\* A1:B1 with column A hidden: nothing was painted over the visible B1
C29_Uncovered ==
    /\ Rendered
    /\ LastDraw.worksheet.model.merges = <<RangeRefOf(CoverRange(1, 1, 2, 1))>>
    /\ Invisible(LastDraw.worksheet.columns[1])
    /\ <<2, 1>> \in VisiblePositions
    /\ PaintsOver(<<2, 1>>) = {}

\* two merges sharing columns A and B, all bands visible: each painted once
C29_SharedColumnsCovered ==
    /\ Rendered
    /\ Len(LastDraw.worksheet.model.merges) = 2
    /\ Cardinality(VisiblePositions) = 6
    /\ Len(CellPaints) = 4
    /\ \A a \in VisiblePositions : CoveredOnce(a)

(***************************************************************************)
(* Workbook uploads.  A file is "valid" (read and parsed), "corrupt" (read, *)
(* but workbook.xlsx.load rejects it) or "unreadable" (file.arrayBuffer()  *)
(* rejects).  An upload is one call of setWorkbookFile: it is "reading"    *)
(* while it awaits readFileAsArrayBuffer, "loading" while it awaits        *)
(* workbook.xlsx.load, "returned" once the call has completed and "thrown" *)
(* once its promise has rejected.  The workbook parsed by the u-th upload  *)
(* is u, and so is the error of its read.                                  *)
(***************************************************************************)
MaxUploads == 3

Files == {"valid", "corrupt", "unreadable"}

getLazyResult(initial, data, error) ==
    IF initial THEN [status |-> "initial"]
    ELSE IF IsNull(error)
    THEN IF IsNull(data) THEN [status |-> "loading"]
         ELSE [status |-> "success", data |-> Get(data)]
    ELSE [status |-> "error", error |-> Get(error)]

\* the handlers of useLazyResult: the state they set
handleLoading == [initial |-> FALSE, data |-> Null, error |-> Null]
handleSuccess(data) == [initial |-> FALSE, data |-> Some(data), error |-> Null]
handleError(error) == [initial |-> FALSE, data |-> Null, error |-> Some(error)]

\* the result the page renders
workbookResult == getLazyResult(lazyResult.initial, lazyResult.data, lazyResult.error)

InFlight(u) == uploads[u].step \in {"reading", "loading"}

\* setWorkbookFile(file) up to its first await: handleLoading()
setWorkbookFile(file) ==
    /\ Len(uploads) < MaxUploads
    /\ lazyResult' = handleLoading
    /\ uploads' = Append(uploads, [file |-> file, step |-> "reading",
                                   overlaps |-> \E u \in 1 .. Len(uploads) : InFlight(u)])
    /\ UNCHANGED <<canvas, events, draws, renders, probe>>

\* readFileAsArrayBuffer settles: with the buffer, and workbook.xlsx.load is called, or
\* with the error, and handleError is called
ReadSettle(u) ==
    /\ u \in 1 .. Len(uploads)
    /\ uploads[u].step = "reading"
    /\ IF uploads[u].file = "unreadable"
       THEN /\ lazyResult' = handleError(u)
            /\ uploads' = [uploads EXCEPT ![u].step = "returned"]
       ELSE /\ uploads' = [uploads EXCEPT ![u].step = "loading"]
            /\ UNCHANGED lazyResult
    /\ UNCHANGED <<canvas, events, draws, renders, probe>>

\* workbook.xlsx.load resolves: handleSuccess(workbook)
LoadResolve(u) ==
    /\ u \in 1 .. Len(uploads)
    /\ uploads[u].step = "loading"
    /\ uploads[u].file = "valid"
    /\ lazyResult' = handleSuccess(u)
    /\ uploads' = [uploads EXCEPT ![u].step = "returned"]
    /\ UNCHANGED <<canvas, events, draws, renders, probe>>

\* workbook.xlsx.load rejects: the exception leaves setWorkbookFile, no handler is called
LoadReject(u) ==
    /\ u \in 1 .. Len(uploads)
    /\ uploads[u].step = "loading"
    /\ uploads[u].file = "corrupt"
    /\ uploads' = [uploads EXCEPT ![u].step = "thrown"]
    /\ UNCHANGED <<canvas, events, draws, renders, probe, lazyResult>>

Upload == \E file \in Files : setWorkbookFile(file)
Read == \E u \in 1 .. MaxUploads : ReadSettle(u)
Load == \E u \in 1 .. MaxUploads : LoadResolve(u)
LoadFail == \E u \in 1 .. MaxUploads : LoadReject(u)

NextUpload == Upload \/ Read \/ Load \/ LoadFail

SpecUpload == Init /\ [][NextUpload]_vars

\* every promise of the platform settles: a read, a successful and a failing load
SpecUploadFair ==
    /\ SpecUpload
    /\ \A u \in 1 .. MaxUploads :
          WF_vars(ReadSettle(u)) /\ WF_vars(LoadResolve(u)) /\ WF_vars(LoadReject(u))

Settled == workbookResult.status \in {"success", "error"}
NoneInFlight == \A u \in 1 .. Len(uploads) : ~InFlight(u)

\* the result is the outcome of the u-th upload
ResultOf(u) ==
    IF uploads[u].file = "valid"
    THEN workbookResult = [status |-> "success", data |-> u]
    ELSE workbookResult.status = "error"

\* every upload moves the result to "loading"
UploadsStartLoading == [][Upload => workbookResult'.status = "loading"]_vars

\* a result that is "loading" is eventually "success" or "error"
LoadingSettles == (workbookResult.status = "loading") ~> Settled

\* once no upload is in flight, the result is the outcome of the upload started last
\* if that one started while another was in flight
LastStartedWins ==
    [](( /\ uploads # <<>>
         /\ NoneInFlight
         /\ uploads[Len(uploads)].overlaps) => ResultOf(Len(uploads)))

\* C30: every upload started through useWorkbook moves the lazy result to "loading"
\* and eventually to "success" or "error" (it never stays "loading" forever), and after
\* two overlapping uploads the final status and data are those of the upload started
\* last.
C30_UploadsSettleAndLastStartedWins ==
    UploadsStartLoading /\ LoadingSettles /\ LastStartedWins

\* a corrupt file was uploaded alone: its load has thrown and the result is "loading"
C30_StuckLoading ==
    /\ Len(uploads) = 1
    /\ uploads[1].file = "corrupt"
    /\ uploads[1].step = "thrown"
    /\ workbookResult.status = "loading"

\* two valid files were uploaded one over the other and the first was loaded last: the
\* result is the workbook of the first
C30_FirstStartedWon ==
    /\ Len(uploads) = 2
    /\ uploads[1].file = "valid" /\ uploads[2].file = "valid"
    /\ uploads[2].overlaps
    /\ NoneInFlight
    /\ workbookResult = [status |-> "success", data |-> 1]

=============================================================================
